---- MODULE Spec2Model ----
(***************************************************************************)
(* Even G2 calendar companion: the BLE packet codec (G2Protocol.ts), the   *)
(* display diff engine and text wrapping (DisplayRenderer.ts), the         *)
(* connection state machine (BLEManager.ts), the display update batch      *)
(* (AppCoordinator.ts), the next-event notification (CalendarService.ts),  *)
(* the image queue of the Even Hub bridge (EvenHubBridge) and the Even Hub *)
(* application: its store (store.ts), event mapper and app.ts.             *)
(*                                                                         *)
(* A byte array (Uint8Array) is a sequence of naturals in 0..255; index 0  *)
(* of the source is index 1 here.  A JavaScript string is the sequence of  *)
(* its code points (all in the Basic Multilingual Plane, so its .length is *)
(* the length of the sequence).  An optional property of an object is a    *)
(* record field that is present or absent (tested with DOMAIN).            *)
(***************************************************************************)
EXTENDS Integers, Sequences, FiniteSets, TLC

VARIABLES
    cmd,            \* codec: the command handed to the encoder
    packet,         \* codec: the bytes the encoder returned for cmd
    cmd2,           \* codec: a second command (Null when only one is used)
    packet2,        \* codec: the bytes the encoder returned for cmd2
    cstate,         \* codec: "ready", "encoded", "received" or "validated"
    rx,             \* codec: the bytes handed to the decoder
    rxKind,         \* codec: how rx was derived from packet
    rxValid,        \* codec: what validateChecksum(rx) returned
    previous,       \* diff: calculateDiff's first argument (Null or a layout)
    current,        \* diff: calculateDiff's second argument
    update,         \* diff: the DisplayUpdate calculateDiff returned
    currentLayout,  \* diff: DisplayRenderer.currentLayout
    config,                 \* ble: G2BLEManager.config
    connectionState,        \* ble: G2BLEManager.connectionState
    connectedDevice,        \* ble: G2BLEManager.connectedDevice (Null or a device)
    reconnectAttempts,      \* ble: G2BLEManager.reconnectAttempts
    scanSubscription,       \* ble: G2BLEManager.scanSubscription
    connectionSubscription, \* ble: G2BLEManager.connectionSubscription
    scanSession,    \* transport: number of the live discovery session, 0 = none
    scanTimers,     \* timers: scans whose auto-stop setTimeout is pending
    scanCount,      \* number of startScan calls so far
    reconnectTimers,\* timers: pending setTimeout callbacks of handleDisconnection
    links,          \* transport: ids of the devices with an open connection
    liveSubs,       \* transport: device.onDisconnected listeners not removed
    connects,       \* connect() calls suspended at an await
    connectCount,   \* number of connect calls so far
    cancels,        \* disconnect() calls suspended at cancelDeviceConnection
    disconnectCount,\* number of disconnect calls made by the application
    radio,          \* transport: "on" until the radio is reported powered off
    lastOp,         \* the handler step that ran last, with what it observed
    eventInfo,      \* app: the displayText of the event updateDisplay is given
    ud,             \* app: the updateDisplay call (Null when none was made)
    wire,           \* transport: the commands written to the device, in order
    eventInfo2,     \* app: the displayText given to a second, concurrent call
    ud2,            \* app: the second updateDisplay call (Null when none)
    wireBy,         \* for each command of wire, the call (1 or 2) that wrote it
    wrapIn,         \* wrap: the text and options given to wrapText
    wrapOut,        \* wrap: [lines |-> what wrapText returned] (Null before the call)
    currentNextEvent,   \* calendar: CalendarService.currentNextEvent
    notified,       \* calendar: the events given to the next-event listeners
    lastPoll,       \* calendar: the next event the last getNextEvent computed
    pollCount,      \* calendar: number of getNextEvent calls so far
    bridge,         \* image: EvenHubBridge.bridge (Null or the SDK bridge)
    imageQueue,     \* image: EvenHubBridge.imageQueue
    isSendingImage, \* image: EvenHubBridge.isSendingImage
    inFlight,       \* image: updateImageRawData calls the SDK has not answered
    imagesSent,     \* image: the images handed to updateImageRawData, in order
    imageCount,     \* image: number of updateImage calls so far
    storeState,     \* hub app: the AppState held by the store
    appRt,          \* hub app: the module variables of app.ts and the
                    \* calendar fetches in flight
    lastAct         \* hub app: what the last step dispatched and started

codecVars == <<cmd, packet, cmd2, packet2, cstate, rx, rxKind, rxValid>>
diffVars == <<previous, current, update, currentLayout>>
bleVars == <<config, connectionState, connectedDevice, reconnectAttempts,
             scanSubscription, connectionSubscription, scanSession,
             scanTimers, scanCount, reconnectTimers, links, liveSubs,
             connects, connectCount, cancels, disconnectCount, radio, lastOp>>
appVars == <<eventInfo, ud, wire, eventInfo2, ud2, wireBy>>
wrapVars == <<wrapIn, wrapOut>>
calendarVars == <<currentNextEvent, notified, lastPoll, pollCount>>
imageVars == <<bridge, imageQueue, isSendingImage, inFlight, imagesSent,
               imageCount>>
hubVars == <<storeState, appRt, lastAct>>
auxVars == <<wrapVars, calendarVars, imageVars, hubVars>>
linkVars == <<bleVars, appVars, auxVars>>

vars == <<codecVars, diffVars, bleVars, appVars, auxVars>>

\* null / undefined, comparable with every record of the model
Null == [null |-> TRUE]

-----------------------------------------------------------------------------
(* Bounds of the model *)

\* longest text drawn from every combination of Chars
MaxTextLen == 1
\* number of bitmap bytes a Graphics command may be off by
MaxDataSlack == 1

-----------------------------------------------------------------------------
(* Program constants *)

HEADER == 2
CHECKSUM_SEED == 255
TEXT == 1
CLEAR == 2
GRAPHICS == 3
BRIGHTNESS == 4
REFRESH == 5
DISPLAY_WIDTH == 640
DISPLAY_HEIGHT == 200
TEXT_MAX_LENGTH == 256
BRIGHTNESS_MAX == 100
DEFAULT_FONT_SIZE == 18
MIN_PACKET_LENGTH == 5

-----------------------------------------------------------------------------
(* Byte arithmetic *)

\* n & 0xFF, for any integer n (two's complement)
And255(n) == n % 256
\* (n >> 8) & 0xFF
Shr8And255(n) == (n \div 256) % 256
\* a store into a Uint8Array keeps the low eight bits
ToUint8(n) == n % 256

\* a ^ b on naturals
RECURSIVE Xor(_, _)
Xor(a, b) ==
    IF a = 0 THEN b
    ELSE IF b = 0 THEN a
    ELSE ((a + b) % 2) + 2 * Xor(a \div 2, b \div 2)

\* bit b (0 = least significant) of the natural n
Bit(n, b) == (n \div (2 ^ b)) % 2

Max(a, b) == IF a >= b THEN a ELSE b
Min(a, b) == IF a <= b THEN a ELSE b

\* how many of the bytes have bit b set
SumBit(bytes, b) == Cardinality({i \in 1..Len(bytes) : Bit(bytes[i], b) = 1})

-----------------------------------------------------------------------------
(* G2ProtocolEncoder *)

\* one code point as TextEncoder encodes it (UTF-8, code points below 0x10000)
Utf8(cp) ==
    IF cp < 128 THEN <<cp>>
    ELSE IF cp < 2048 THEN <<192 + (cp \div 64), 128 + (cp % 64)>>
    ELSE <<224 + (cp \div 4096), 128 + ((cp \div 64) % 64), 128 + (cp % 64)>>

\* an encoder that writes one byte for every character
stringToBytes_OneBytePerChar(str) == [i \in 1..Len(str) |-> And255(str[i])]

\* TextEncoder.encode: the encodings of the code points, in order (a long
\* string is encoded half by half)
RECURSIVE stringToBytes(_)
stringToBytes(str) ==
    IF str = <<>> THEN <<>>
    ELSE IF Len(str) = 1 THEN Utf8(str[1])
    ELSE LET mid == Len(str) \div 2
         IN  stringToBytes(SubSeq(str, 1, mid))
                \o stringToBytes(SubSeq(str, mid + 1, Len(str)))

encodeAlignment(alignment) ==
    CASE alignment = "LEFT" -> 0
      [] alignment = "CENTER" -> 1
      [] alignment = "RIGHT" -> 2
      [] OTHER -> 0

\* data[lo] ^ ... ^ data[hi] (0 for an empty range), taken in halves
RECURSIVE XorOfBytes(_, _, _)
XorOfBytes(data, lo, hi) ==
    IF lo > hi THEN 0
    ELSE IF lo = hi THEN data[lo]
    ELSE LET mid == (lo + hi) \div 2
         IN  Xor(XorOfBytes(data, lo, mid), XorOfBytes(data, mid + 1, hi))

\* the loop "checksum ^= data[i]" from the seed: XOR is associative, so the
\* result is the seed XORed with the XOR of all the bytes
calculateChecksum(data) == Xor(CHECKSUM_SEED, XorOfBytes(data, 1, Len(data)))

\* buildPacket with the length field written high byte first
buildPacket_BigEndianLength(commandType, payload) ==
    LET checksumData == <<commandType, Shr8And255(Len(payload)),
                          And255(Len(payload))>> \o payload
    IN  <<HEADER>> \o checksumData \o <<calculateChecksum(checksumData)>>

buildPacket(commandType, payload) ==
    LET checksumData == <<commandType, And255(Len(payload)),
                          Shr8And255(Len(payload))>> \o payload
    IN  <<HEADER>> \o checksumData \o <<calculateChecksum(checksumData)>>

\* command.fontSize || 18
fontSizeOrDefault(command) ==
    IF "fontSize" \in DOMAIN command /\ command.fontSize # 0
    THEN command.fontSize
    ELSE DEFAULT_FONT_SIZE

encodeTextCommand(command) ==
    LET textBytes == stringToBytes(command.text)
        payload == <<And255(command.x), Shr8And255(command.x),
                     And255(command.y), Shr8And255(command.y),
                     encodeAlignment(command.alignment),
                     ToUint8(fontSizeOrDefault(command))>> \o textBytes
    IN  buildPacket(TEXT, payload)

encodeClearCommand(command) ==
    IF "region" \in DOMAIN command
    THEN buildPacket(CLEAR,
            <<And255(command.region.x), Shr8And255(command.region.x),
              And255(command.region.y), Shr8And255(command.region.y),
              And255(command.region.width), Shr8And255(command.region.width),
              And255(command.region.height), Shr8And255(command.region.height)>>)
    ELSE buildPacket(CLEAR, <<>>)

encodeGraphicsCommand(command) ==
    buildPacket(GRAPHICS,
        <<And255(command.x), Shr8And255(command.x),
          And255(command.y), Shr8And255(command.y),
          And255(command.width), Shr8And255(command.width),
          And255(command.height), Shr8And255(command.height)>> \o command.data)

encodeBrightnessCommand(command) ==
    buildPacket(BRIGHTNESS,
        <<ToUint8(Max(0, Min(BRIGHTNESS_MAX, command.level))),
          IF "auto" \in DOMAIN command /\ command.auto THEN 1 ELSE 0>>)

\* the encoder call sendCommand selects by command.type; an unknown type
\* throws before anything is encoded (no bytes)
encode(command) ==
    CASE command.type = TEXT -> encodeTextCommand(command)
      [] command.type = CLEAR -> encodeClearCommand(command)
      [] command.type = GRAPHICS -> encodeGraphicsCommand(command)
      [] command.type = BRIGHTNESS -> encodeBrightnessCommand(command)
      [] OTHER -> <<>>

-----------------------------------------------------------------------------
(* G2ProtocolDecoder *)

\* validateChecksum with the checksum taken over one byte too few
validateChecksum_SkipsLastByte(pkt) ==
    IF Len(pkt) < MIN_PACKET_LENGTH THEN FALSE
    ELSE pkt[Len(pkt)] = calculateChecksum(SubSeq(pkt, 2, Len(pkt) - 2))

validateChecksum(pkt) ==
    IF Len(pkt) < MIN_PACKET_LENGTH THEN FALSE
    ELSE LET checksumIndex == Len(pkt)
             receivedChecksum == pkt[checksumIndex]
             checksumData == SubSeq(pkt, 2, checksumIndex - 1)
         IN  receivedChecksum = calculateChecksum(checksumData)

-----------------------------------------------------------------------------
(* G2ProtocolUtils *)

validateTextCommand(command) ==
    /\ command.x >= 0
    /\ command.x < DISPLAY_WIDTH
    /\ command.y >= 0
    /\ command.y < DISPLAY_HEIGHT
    /\ Len(command.text) > 0
    /\ Len(command.text) <= TEXT_MAX_LENGTH

validateClearCommand(command) ==
    IF "region" \notin DOMAIN command THEN TRUE
    ELSE /\ command.region.x >= 0
         /\ command.region.y >= 0
         /\ command.region.width > 0
         /\ command.region.height > 0
         /\ command.region.x + command.region.width <= DISPLAY_WIDTH
         /\ command.region.y + command.region.height <= DISPLAY_HEIGHT

validateGraphicsCommand(command) ==
    LET expectedDataSize == (command.width * command.height + 7) \div 8
    IN  /\ command.x >= 0
        /\ command.y >= 0
        /\ command.width > 0
        /\ command.height > 0
        /\ command.x + command.width <= DISPLAY_WIDTH
        /\ command.y + command.height <= DISPLAY_HEIGHT
        /\ Len(command.data) = expectedDataSize

validateBrightnessCommand(command) ==
    command.level >= 0 /\ command.level <= BRIGHTNESS_MAX

validateCommand(command) ==
    CASE command.type = TEXT -> validateTextCommand(command)
      [] command.type = CLEAR -> validateClearCommand(command)
      [] command.type = GRAPHICS -> validateGraphicsCommand(command)
      [] command.type = BRIGHTNESS -> validateBrightnessCommand(command)
      [] OTHER -> FALSE

-----------------------------------------------------------------------------
(* Inputs of the codec *)

Alignments == {"LEFT", "CENTER", "RIGHT"}
FontSizes == {18, 24}

\* 'A', e-acute, euro sign: one, two and three bytes in UTF-8
Chars == {65, 233, 8364}

RECURSIVE StringsUpTo(_)
StringsUpTo(n) ==
    IF n = 0 THEN {<<>>}
    ELSE LET shorter == StringsUpTo(n - 1)
         IN  shorter \cup {Append(s, c) : s \in shorter, c \in Chars}

\* "Hello"
Hello == <<72, 101, 108, 108, 111>>
Repeat(c, n) == [i \in 1..n |-> c]

ShortTexts == StringsUpTo(MaxTextLen) \cup {Hello}
\* the longest text the validator accepts, and one character more
LongTexts == {Repeat(65, TEXT_MAX_LENGTH), Repeat(65, TEXT_MAX_LENGTH + 1)}

TextBase(xs, ys, as, texts) ==
    [type : {TEXT}, text : texts, x : xs, y : ys, alignment : as]
WithFontSize(S) == S \cup {[fontSize |-> f] @@ c : c \in S, f \in FontSizes}
WithBold(S) == S \cup {[bold |-> b] @@ c : c \in S, b \in BOOLEAN}

\* every alignment, font size and bold at one position; every position with
\* the other fields fixed; the two long texts
TextCommands ==
    WithBold(WithFontSize(TextBase({10}, {20}, Alignments, ShortTexts)))
        \cup TextBase({-1, 10, 300, 640}, {-1, 20, 200}, {"LEFT"}, ShortTexts)
        \cup TextBase({10}, {20}, {"LEFT"}, LongTexts)

Regions ==
    { [x |-> 10, y |-> 20, width |-> 620, height |-> 40],
      [x |-> 630, y |-> 0, width |-> 20, height |-> 10],
      [x |-> 0, y |-> 0, width |-> 0, height |-> 0] }
ClearCommands ==
    {[type |-> CLEAR]} \cup {[type |-> CLEAR, region |-> r] : r \in Regions}

BitmapSizes(w, h) ==
    LET expected == (w * h + 7) \div 8
    IN  Max(0, expected - MaxDataSlack) .. (expected + MaxDataSlack)
GraphicsCommands ==
    UNION { { [type |-> GRAPHICS, x |-> gx, y |-> 0, width |-> w, height |-> h,
               data |-> Repeat(v, n)] : n \in BitmapSizes(w, h), v \in {0, 165} }
            : gx \in {0, 639}, w \in {3, 8}, h \in {1, 3} }

BrightnessCommands ==
    LET base == [type : {BRIGHTNESS}, level : {-1, 0, 50, 100, 101, 300}]
    IN  base \cup {[auto |-> a] @@ c : c \in base, a \in BOOLEAN}

\* a command whose type no encoder handles
UnknownCommands == {[type |-> REFRESH]}

Commands ==
    TextCommands \cup ClearCommands \cup GraphicsCommands
        \cup BrightnessCommands \cup UnknownCommands

\* the commands drawn in pairs
PairCommands ==
    WithBold(WithFontSize(TextBase({10, 300}, {20}, Alignments, {<<65>>, Hello})))
        \cup ClearCommands \cup BrightnessCommands
        \cup {c \in GraphicsCommands : c.x = 0 /\ c.width = 8}

-----------------------------------------------------------------------------
(* The codec as a state machine: a command is encoded, the bytes reach the *)
(* decoder intact or altered, and the decoder validates them.              *)

WrapIdle ==
    /\ wrapIn = Null
    /\ wrapOut = Null

\* the calendar service as constructed
CalendarIdle ==
    /\ currentNextEvent = Null
    /\ notified = <<>>
    /\ lastPoll = Null
    /\ pollCount = 0

\* the Even Hub bridge as constructed
ImageIdle ==
    /\ bridge = Null
    /\ imageQueue = <<>>
    /\ isSendingImage = FALSE
    /\ inFlight = {}
    /\ imagesSent = <<>>
    /\ imageCount = 0

\* no Even Hub application created
HubIdle ==
    /\ storeState = Null
    /\ appRt = Null
    /\ lastAct = Null

AuxIdle == WrapIdle /\ CalendarIdle /\ ImageIdle /\ HubIdle

\* the connection manager as constructed and no display update under way
ManagerIdle ==
    /\ config = Null
    /\ connectionState = "DISCONNECTED"
    /\ connectedDevice = Null
    /\ reconnectAttempts = 0
    /\ scanSubscription = Null
    /\ connectionSubscription = Null
    /\ scanSession = 0
    /\ scanTimers = {}
    /\ scanCount = 0
    /\ reconnectTimers = 0
    /\ links = {}
    /\ liveSubs = {}
    /\ connects = {}
    /\ connectCount = 0
    /\ cancels = {}
    /\ disconnectCount = 0
    /\ radio = "on"
    /\ lastOp = [op |-> "none"]
    /\ eventInfo = Null
    /\ ud = Null
    /\ wire = <<>>
    /\ eventInfo2 = Null
    /\ ud2 = Null
    /\ wireBy = <<>>

LinkIdle == ManagerIdle /\ AuxIdle

DiffIdle ==
    /\ previous = Null
    /\ current = Null
    /\ update = Null
    /\ currentLayout = Null

InitCodec ==
    /\ cmd \in Commands
    /\ cmd2 = Null
    /\ packet = <<>>
    /\ packet2 = <<>>
    /\ cstate = "ready"
    /\ rx = <<>>
    /\ rxKind = [kind |-> "none"]
    /\ rxValid = FALSE
    /\ DiffIdle
    /\ LinkIdle

InitPair ==
    /\ cmd \in PairCommands
    /\ cmd2 \in PairCommands
    /\ packet = <<>>
    /\ packet2 = <<>>
    /\ cstate = "ready"
    /\ rx = <<>>
    /\ rxKind = [kind |-> "none"]
    /\ rxValid = FALSE
    /\ DiffIdle
    /\ LinkIdle

Encode ==
    /\ cstate = "ready"
    /\ packet' = encode(cmd)
    /\ cstate' = "encoded"
    /\ UNCHANGED <<cmd, cmd2, packet2, rx, rxKind, rxValid>>
    /\ UNCHANGED <<diffVars, linkVars>>

EncodeOther ==
    /\ cstate = "encoded"
    /\ cmd2 # Null
    /\ packet2' = encode(cmd2)
    /\ cstate' = "encoded2"
    /\ UNCHANGED <<cmd, cmd2, packet, rx, rxKind, rxValid>>
    /\ UNCHANGED <<diffVars, linkVars>>

Received(bytes, kind) ==
    /\ rx' = bytes
    /\ rxKind' = kind
    /\ cstate' = "received"
    /\ UNCHANGED <<cmd, cmd2, packet, packet2, rxValid>>
    /\ UNCHANGED <<diffVars, linkVars>>

ReceiveIntact ==
    /\ cstate = "encoded" /\ cmd2 = Null /\ packet # <<>>
    /\ Received(packet, [kind |-> "intact"])

\* one bit of a payload byte or of the checksum byte is flipped
ReceiveBitFlip ==
    /\ cstate = "encoded" /\ cmd2 = Null /\ packet # <<>>
    /\ \E i \in 5..Len(packet), b \in 0..7 :
          Received([packet EXCEPT ![i] = Xor(@, 2 ^ b)],
                   [kind |-> "bitflip", index |-> i, bit |-> b])

\* the checksum byte is incremented by 1
ReceiveChecksumPlusOne ==
    /\ cstate = "encoded" /\ cmd2 = Null /\ packet # <<>>
    /\ Received([packet EXCEPT ![Len(packet)] = (@ + 1) % 256],
                [kind |-> "checksum+1"])

\* fewer than five bytes arrive
ReceiveShort ==
    /\ cstate = "encoded" /\ cmd2 = Null /\ packet # <<>>
    /\ \E n \in 0..(MIN_PACKET_LENGTH - 1) :
          Received(SubSeq(packet, 1, n), [kind |-> "short", length |-> n])

\* a frame whose length field declares d bytes of payload while another
\* number is present, and whose checksum byte matches its bytes
ReceiveBadLength ==
    /\ cstate = "encoded" /\ cmd2 = Null /\ packet # <<>>
    /\ \E d \in {Len(packet) - MIN_PACKET_LENGTH + 1, MIN_PACKET_LENGTH} :
          /\ d # Len(packet) - MIN_PACKET_LENGTH
          /\ LET body == <<packet[2], And255(d), Shr8And255(d)>>
                            \o SubSeq(packet, 5, Len(packet) - 1)
             IN  Received(<<packet[1]>> \o body \o <<calculateChecksum(body)>>,
                          [kind |-> "badlength", declared |-> d])

ValidateChecksum ==
    /\ cstate = "received"
    /\ rxValid' = validateChecksum(rx)
    /\ cstate' = "validated"
    /\ UNCHANGED <<cmd, cmd2, packet, packet2, rx, rxKind>>
    /\ UNCHANGED <<diffVars, linkVars>>

NextCodec ==
    \/ Encode
    \/ ReceiveIntact
    \/ ReceiveBitFlip
    \/ ReceiveChecksumPlusOne
    \/ ReceiveShort
    \/ ReceiveBadLength
    \/ ValidateChecksum

SpecCodec == InitCodec /\ [][NextCodec]_vars

NextPair == Encode \/ EncodeOther

SpecPair == InitPair /\ [][NextPair]_vars

-----------------------------------------------------------------------------
(* Claims about the codec *)

\* C1 (round trip): a decoder returns, for the bytes of every valid command,
\* that command, field by field.  Stated for the two valid commands that were
\* encoded: some function from their bytes to commands gives each of them
\* back from its own bytes.
C1_RoundTrip ==
    (cstate = "encoded2" /\ validateCommand(cmd) /\ validateCommand(cmd2))
        => \E decode \in [{packet, packet2} -> {cmd, cmd2}] :
              decode[packet] = cmd /\ decode[packet2] = cmd2

\* C2 (integrity): a packet of the encoder with one bit of its payload or of
\* its checksum byte flipped, or with its checksum byte incremented by 1, is
\* rejected by validateChecksum.
C2_CorruptionRejected ==
    (cstate = "validated" /\ rxKind.kind \in {"bitflip", "checksum+1"})
        => rxValid = FALSE

C2_Witness ==
    /\ cstate = "validated"
    /\ rxKind.kind = "bitflip"
    /\ rxKind.index < Len(rx)
    /\ cmd.type = TEXT
    /\ rxValid = FALSE

\* C3 (validation before encoding): the encoder produces no bytes for a
\* command that violates its field bounds.
C3_InvalidNotEncoded ==
    (cstate = "encoded" /\ ~validateCommand(cmd)) => packet = <<>>

\* the number of bytes of str in UTF-8
Utf8Size(str) ==
    Len(str) + Cardinality({i \in 1..Len(str) : str[i] >= 128})
             + Cardinality({i \in 1..Len(str) : str[i] >= 2048})

\* the number of payload bytes the wire format gives a command
PayloadSize(command) ==
    CASE command.type = TEXT -> 6 + Utf8Size(command.text)
      [] command.type = CLEAR -> IF "region" \in DOMAIN command THEN 8 ELSE 0
      [] command.type = GRAPHICS -> 8 + Len(command.data)
      [] command.type = BRIGHTNESS -> 2

\* C4 (framing): a packet of the encoder is the header 0x02, the command
\* type, the payload length in two bytes little-endian, the payload and the
\* checksum; the length field is the number of payload bytes, the packet is
\* 5 bytes longer, and the checksum is 0xFF XORed with every byte from the
\* command type to the last payload byte (bit by bit: a checksum bit is the
\* parity of 1 plus the number of those bytes that have the bit set).
C4_Framing ==
    (cstate = "encoded" /\ packet # <<>>)
        => LET n == Len(packet)
           IN  /\ n = 5 + PayloadSize(cmd)
               /\ \A i \in 1..n : packet[i] \in 0..255
               /\ packet[1] = 2
               /\ packet[2] = cmd.type
               /\ packet[3] + 256 * packet[4] = PayloadSize(cmd)
               /\ \A b \in 0..7 :
                     Bit(packet[n], b)
                        = (1 + SumBit(SubSeq(packet, 2, n - 1), b)) % 2

C4_Witness ==
    /\ cstate = "encoded"
    /\ cmd.type = TEXT
    /\ Len(packet) > 5 + 256
    /\ packet[4] = 1

\* the UTF-8 bytes of the characters of the inputs: ASCII is one byte,
\* e-acute is C3 A9, the euro sign is E2 82 AC
Utf8Bytes(c) ==
    CASE c < 128 -> <<c>>
      [] c = 233 -> <<195, 169>>
      [] c = 8364 -> <<226, 130, 172>>

RECURSIVE Utf8Text(_)
Utf8Text(str) ==
    IF str = <<>> THEN <<>>
    ELSE IF Len(str) = 1 THEN Utf8Bytes(str[1])
    ELSE LET mid == Len(str) \div 2
         IN  Utf8Text(SubSeq(str, 1, mid))
                \o Utf8Text(SubSeq(str, mid + 1, Len(str)))

AlignmentByte(alignment) ==
    CASE alignment = "LEFT" -> 0
      [] alignment = "CENTER" -> 1
      [] alignment = "RIGHT" -> 2

\* C28 (TEXT payload): for a Text command whose coordinates are 16-bit
\* values, the payload is x and y in two bytes each, low byte first, the
\* alignment byte (0 left, 1 center, 2 right), the font size byte (18 when
\* the command gives none) and the UTF-8 bytes of the text, and the length
\* field of the packet is 6 plus the number of those UTF-8 bytes.
C28_TextPayload ==
    (cstate = "encoded" /\ cmd.type = TEXT /\ packet # <<>>
        /\ cmd.x \in 0..65535 /\ cmd.y \in 0..65535)
        => LET payload == SubSeq(packet, 5, Len(packet) - 1)
               text == Utf8Text(cmd.text)
           IN  /\ Len(payload) = 6 + Len(text)
               /\ payload[1] + 256 * payload[2] = cmd.x
               /\ payload[3] + 256 * payload[4] = cmd.y
               /\ payload[5] = AlignmentByte(cmd.alignment)
               /\ payload[6] = (IF "fontSize" \in DOMAIN cmd
                                THEN cmd.fontSize ELSE 18)
               /\ SubSeq(payload, 7, Len(payload)) = text
               /\ packet[3] + 256 * packet[4] = 6 + Len(text)

\* a right-aligned Text command with the euro sign as its text has been
\* encoded: one character, three bytes, length field 9
C28_Witness ==
    /\ cstate = "encoded"
    /\ cmd.type = TEXT
    /\ cmd.text = <<8364>>
    /\ cmd.alignment = "RIGHT"
    /\ packet[3] = 9

\* C5 (malformed length): validateChecksum rejects a packet shorter than 5
\* bytes and a packet whose length field differs from the number of bytes
\* between the length field and the checksum byte.
C5_MalformedLengthRejected ==
    (cstate = "validated"
        /\ (Len(rx) < 5 \/ rx[3] + 256 * rx[4] # Len(rx) - 5))
        => rxValid = FALSE

-----------------------------------------------------------------------------
(* DisplayRenderer: layouts and the diff engine *)

RegionIds == {"title", "timeRange", "location", "timeUntil", "duration"}

\* CALENDAR_LAYOUT
CalendarRegion(id) ==
    CASE id = "title" -> [x |-> 10, y |-> 20, width |-> 620, height |-> 40]
      [] id = "timeRange" -> [x |-> 10, y |-> 70, width |-> 620, height |-> 30]
      [] id = "location" -> [x |-> 10, y |-> 110, width |-> 620, height |-> 25]
      [] id = "timeUntil" -> [x |-> 10, y |-> 145, width |-> 620, height |-> 25]
      [] id = "duration" -> [x |-> 10, y |-> 175, width |-> 620, height |-> 20]

\* a string argument is "" when it is undefined or empty (the source tests
\* it for truthiness only); title and location are the strings returned by
\* formatEventTitle and formatLocation
createCalendarLayout(title, timeRange, location, timeUntil, duration) ==
    LET layout ==
            [ title |->
                [ id |-> "title", region |-> CalendarRegion("title"),
                  content |-> title,
                  style |-> [fontSize |-> 24, bold |-> TRUE, alignment |-> "left"],
                  visible |-> TRUE ],
              timeRange |->
                [ id |-> "timeRange", region |-> CalendarRegion("timeRange"),
                  content |-> timeRange,
                  style |-> [fontSize |-> 18, bold |-> FALSE, alignment |-> "left"],
                  visible |-> TRUE ],
              timeUntil |->
                [ id |-> "timeUntil", region |-> CalendarRegion("timeUntil"),
                  content |-> timeUntil,
                  style |-> [fontSize |-> 18, bold |-> TRUE, alignment |-> "left"],
                  visible |-> (timeUntil # "") ] ]
        locationPart ==
            IF location # ""
            THEN [ location |->
                    [ id |-> "location", region |-> CalendarRegion("location"),
                      content |-> location,
                      style |-> [fontSize |-> 14, bold |-> FALSE, alignment |-> "left"],
                      visible |-> TRUE ] ]
            ELSE <<>>
        durationPart ==
            IF duration # ""
            THEN [ duration |->
                    [ id |-> "duration", region |-> CalendarRegion("duration"),
                      content |-> duration,
                      style |-> [fontSize |-> 14, bold |-> FALSE, alignment |-> "left"],
                      visible |-> TRUE ] ]
            ELSE <<>>
    IN  layout @@ locationPart @@ durationPart

\* layout.location / layout.duration: Null when the layout has no such element
ElementOf(layout, id) == IF id \in DOMAIN layout THEN layout[id] ELSE Null

\* layout.location?.visible
OptionalVisible(layout, id) == id \in DOMAIN layout /\ layout[id].visible

PushIf(cond, element) == IF cond THEN <<element>> ELSE <<>>

\* renderLayout that collects timeUntil without looking at its visibility
renderLayout_TimeUntilAlways(layout) ==
    [ type |-> "FULL",
      elements |->
          PushIf(layout.title.visible, layout.title)
            \o PushIf(layout.timeRange.visible, layout.timeRange)
            \o PushIf(OptionalVisible(layout, "location"), ElementOf(layout, "location"))
            \o <<layout.timeUntil>>
            \o PushIf(OptionalVisible(layout, "duration"), ElementOf(layout, "duration")),
      clearBefore |-> TRUE ]

\* the DisplayUpdate renderLayout returns
renderLayout(layout) ==
    [ type |-> "FULL",
      elements |->
          PushIf(layout.title.visible, layout.title)
            \o PushIf(layout.timeRange.visible, layout.timeRange)
            \o PushIf(OptionalVisible(layout, "location"), ElementOf(layout, "location"))
            \o PushIf(layout.timeUntil.visible, layout.timeUntil)
            \o PushIf(OptionalVisible(layout, "duration"), ElementOf(layout, "duration")),
      clearBefore |-> TRUE ]

\* hasElementChanged that compares the visibility only
hasElementChanged_VisibleOnly(prev, cur) ==
    IF prev = Null /\ cur = Null THEN FALSE
    ELSE IF prev = Null \/ cur = Null THEN TRUE
    ELSE prev.visible # cur.visible

hasElementChanged(prev, cur) ==
    IF prev = Null /\ cur = Null THEN FALSE
    ELSE IF prev = Null \/ cur = Null THEN TRUE
    ELSE prev.content # cur.content \/ prev.visible # cur.visible

IsVisible(element) == element.visible

getAllElements(layout) ==
    SelectSeq(
        <<layout.title, layout.timeRange, layout.timeUntil>>
            \o PushIf("location" \in DOMAIN layout, ElementOf(layout, "location"))
            \o PushIf("duration" \in DOMAIN layout, ElementOf(layout, "duration")),
        IsVisible)

\* the DisplayUpdate calculateDiff returns
calculateDiff(prev, cur) ==
    IF prev = Null THEN renderLayout(cur)
    ELSE
      LET changedElements ==
              PushIf(hasElementChanged(prev.title, cur.title), cur.title)
                \o PushIf(hasElementChanged(prev.timeRange, cur.timeRange), cur.timeRange)
                \o PushIf(hasElementChanged(ElementOf(prev, "location"), ElementOf(cur, "location"))
                            /\ "location" \in DOMAIN cur,
                          ElementOf(cur, "location"))
                \o PushIf(hasElementChanged(prev.timeUntil, cur.timeUntil), cur.timeUntil)
                \o PushIf(hasElementChanged(ElementOf(prev, "duration"), ElementOf(cur, "duration"))
                            /\ "duration" \in DOMAIN cur,
                          ElementOf(cur, "duration"))
          updateType ==
              IF Len(changedElements) = 0 THEN "FULL"
              ELSE IF Len(changedElements) > 2 THEN "FULL"
              ELSE "INCREMENTAL"
      IN  [ type |-> updateType,
            elements |-> IF updateType = "FULL" THEN getAllElements(cur)
                         ELSE changedElements,
            clearBefore |-> (updateType = "FULL") ]

-----------------------------------------------------------------------------
(* The diff engine as a state machine: calculateDiff is called once on a   *)
(* pair of layouts that createCalendarLayout can return.                   *)

Titles == {"Standup", "Design review"}
TimeRanges == {"10:00 AM - 10:30 AM", "2:00 PM - 3:00 PM"}
Locations == {"", "Conference Room B", "Lobby"}
TimeUntils == {"", "Starts in 12 min", "In progress"}
Durations == {"", "30 min", "1 hour"}

Layouts ==
    { createCalendarLayout(t, r, l, u, d) :
        t \in Titles, r \in TimeRanges, l \in Locations,
        u \in TimeUntils, d \in Durations }

CodecIdle ==
    /\ cmd = Null
    /\ cmd2 = Null
    /\ packet = <<>>
    /\ packet2 = <<>>
    /\ cstate = "idle"
    /\ rx = <<>>
    /\ rxKind = [kind |-> "none"]
    /\ rxValid = FALSE

InitDiff ==
    /\ previous \in Layouts \cup {Null}
    /\ current \in Layouts
    /\ update = Null
    /\ currentLayout = Null
    /\ CodecIdle
    /\ LinkIdle

\* calculateDiff(previous, current); with no previous layout it goes through
\* renderLayout, which records the layout as the current one
CalculateDiff ==
    /\ update = Null
    /\ update' = calculateDiff(previous, current)
    /\ currentLayout' = IF previous = Null THEN current ELSE currentLayout
    /\ UNCHANGED <<previous, current>>
    /\ UNCHANGED <<codecVars, linkVars>>

NextDiff == CalculateDiff

SpecDiff == InitDiff /\ [][NextDiff]_vars

-----------------------------------------------------------------------------
(* Claims about the diff engine *)

\* the named region differs between previous and current: it is present in
\* one only, or its content string or its visibility differs
Differs(id) ==
    LET p == ElementOf(previous, id)
        c == ElementOf(current, id)
    IN  \/ (p = Null) # (c = Null)
        \/ p # Null /\ c # Null /\ (p.content # c.content \/ p.visible # c.visible)

ChangedRegions == {id \in RegionIds : Differs(id)}

VisibleElements(layout) ==
    {layout[id] : id \in {i \in RegionIds \cap DOMAIN layout : layout[i].visible}}

ElementSet(u) == {u.elements[i] : i \in DOMAIN u.elements}
ElementIds(u) == {u.elements[i].id : i \in DOMAIN u.elements}
NoDuplicate(u) == Cardinality(ElementIds(u)) = Len(u.elements)

\* C6: calculateDiff(null, L) is a Full update whose elements are exactly
\* the visible elements of L, each once.
C6_NullPreviousIsFull ==
    (update # Null /\ previous = Null)
        => /\ update.type = "FULL"
           /\ ElementSet(update) = VisibleElements(current)
           /\ NoDuplicate(update)

C6_Witness ==
    /\ update # Null
    /\ previous = Null
    /\ ~current.timeUntil.visible
    /\ "location" \notin DOMAIN current
    /\ "duration" \in DOMAIN current
    /\ Len(update.elements) = 3

\* C7: calculateDiff(L, L) is an Incremental update with no element and no
\* leading clear.
C7_IdenticalIsEmptyIncremental ==
    (update # Null /\ previous = current)
        => /\ update.type = "INCREMENTAL"
           /\ update.elements = <<>>
           /\ update.clearBefore = FALSE

\* the update is Incremental, lists exactly the changed regions (as they are
\* in current), each once, and has no leading clear
IncrementalOfChanged ==
    /\ update.type = "INCREMENTAL"
    /\ ElementIds(update) = ChangedRegions
    /\ NoDuplicate(update)
    /\ \A e \in ElementSet(update) : e = ElementOf(current, e.id)
    /\ update.clearBefore = FALSE

\* C8 as stated: when exactly one or two named regions differ, the update is
\* Incremental with exactly the changed regions and no leading clear.
C8_OneOrTwoChanged ==
    (update # Null /\ previous # Null /\ Cardinality(ChangedRegions) \in {1, 2})
        => IncrementalOfChanged

\* C8 as amended: the same, when none of the differing regions was removed
\* (each of them is present in current).
C8_OneOrTwoChangedNoneRemoved ==
    (update # Null /\ previous # Null /\ Cardinality(ChangedRegions) \in {1, 2}
        /\ ChangedRegions \subseteq DOMAIN current)
        => IncrementalOfChanged

C8_Witness ==
    /\ update # Null
    /\ previous # Null
    /\ ChangedRegions = {"title", "location"}
    /\ "location" \notin DOMAIN previous
    /\ update.type = "INCREMENTAL"
    /\ Len(update.elements) = 2

\* C9: when more than two named regions differ (an added or removed region
\* counts), the update is Full with all visible elements of current and a
\* leading clear.
C9_MoreThanTwoChangedIsFull ==
    (update # Null /\ previous # Null /\ Cardinality(ChangedRegions) > 2)
        => /\ update.type = "FULL"
           /\ ElementSet(update) = VisibleElements(current)
           /\ update.clearBefore = TRUE

\* a region shown with content in previous is absent or invisible in current
StaleRegion(id) ==
    /\ id \in DOMAIN previous
    /\ previous[id].visible
    /\ previous[id].content # ""
    /\ (id \notin DOMAIN current \/ ~current[id].visible)

\* C10: when a region that was visible with content in previous is absent or
\* no longer visible in current, the update is Full with a leading clear.
C10_StaleContentIsCleared ==
    (update # Null /\ previous # Null /\ \E id \in RegionIds : StaleRegion(id))
        => /\ update.type = "FULL"
           /\ update.clearBefore = TRUE

-----------------------------------------------------------------------------
(* G2BLEManager (BLEManager.ts): the connection state machine.             *)
(*                                                                         *)
(* An async method is one action per stretch of code between two awaits.   *)
(* The transport (react-native-ble-plx) is the environment: it resolves or *)
(* rejects each pending call and reports link losses and the radio state.  *)
(* The model starts after initialize(), which registers the radio-state    *)
(* listener.  subscribeTouchBarEvents changes no field of the manager and  *)
(* catches its own errors, so connect() ends with the step that sets       *)
(* CONNECTED.                                                              *)

\* bound: startScan, connect and disconnect calls made by the application
\* in one run
MaxCalls == 2
\* bound: config.maxReconnectAttempts (5 by default)
MaxReconnectAttempts == 1

DISCONNECTED == "DISCONNECTED"
SCANNING == "SCANNING"
CONNECTING == "CONNECTING"
CONNECTED == "CONNECTED"
DISCONNECTING == "DISCONNECTING"
ERROR == "ERROR"

DeviceIds == {"G2-A", "G2-B"}
Device(id) == [id |-> id]

\* the constructor's config: maxReconnectAttempts and enableAutoReconnect
Configs ==
    [maxReconnectAttempts : {MaxReconnectAttempts},
     enableAutoReconnect : BOOLEAN]

isConnected == connectionState = CONNECTED

\* the application may make another call
MoreCalls == scanCount + connectCount + disconnectCount < MaxCalls

\* this.config.enableAutoReconnect && this.reconnectAttempts < max
shouldReconnect_Unbounded(cfg, attempts) == cfg.enableAutoReconnect

shouldReconnect(cfg, attempts) ==
    cfg.enableAutoReconnect /\ attempts < cfg.maxReconnectAttempts

\* handleDisconnection on the fields it touches, m being the record
\* [connectedDevice, connectionState, reconnectAttempts, reconnectTimers,
\*  reconnect]; reconnect tells whether the last call took the reconnect
\* branch (otherwise it only gave CONNECTION_LOST to the error callbacks)
handleDisconnection(m) ==
    IF shouldReconnect(config, m.reconnectAttempts)
    THEN [m EXCEPT !.connectedDevice = Null,
                   !.connectionState = DISCONNECTED,
                   !.reconnectAttempts = @ + 1,
                   !.reconnectTimers = @ + 1,
                   !.reconnect = TRUE]
    ELSE [m EXCEPT !.connectedDevice = Null,
                   !.connectionState = DISCONNECTED,
                   !.reconnect = FALSE]

\* every onDisconnected listener of the lost device runs handleDisconnection
RECURSIVE handleDisconnections(_, _)
handleDisconnections(m, k) ==
    IF k = 0 THEN m ELSE handleDisconnections(handleDisconnection(m), k - 1)

\* a connect that leaves the count of reconnect attempts as it was
attemptsAfterConnect_Kept(attempts) == attempts

\* this.reconnectAttempts = 0 of connect
attemptsAfterConnect(attempts) == 0

\* the state the scan's auto-stop timer leaves
scanTimeoutState_AlwaysDisconnected(state) == DISCONNECTED

scanTimeoutState(state) == IF state = SCANNING THEN DISCONNECTED ELSE state

InitBLE ==
    /\ config \in Configs
    /\ connectionState = DISCONNECTED
    /\ connectedDevice = Null
    /\ reconnectAttempts = 0
    /\ scanSubscription = Null
    /\ connectionSubscription = Null
    /\ scanSession = 0
    /\ scanTimers = {}
    /\ scanCount = 0
    /\ reconnectTimers = 0
    /\ links = {}
    /\ liveSubs = {}
    /\ connects = {}
    /\ connectCount = 0
    /\ cancels = {}
    /\ disconnectCount = 0
    /\ radio = "on"
    /\ lastOp = [op |-> "none"]
    /\ eventInfo = Null
    /\ ud = Null
    /\ wire = <<>>
    /\ eventInfo2 = Null
    /\ ud2 = Null
    /\ wireBy = <<>>
    /\ AuxIdle
    /\ CodecIdle
    /\ DiffIdle

OtherFrame == UNCHANGED <<codecVars, diffVars, appVars, auxVars, config>>

BleFrame == OtherFrame /\ UNCHANGED <<disconnectCount, radio>>

\* startScan: SCANNING, stopScan(), a new discovery session and its timer
StartScan ==
    /\ MoreCalls
    /\ scanCount' = scanCount + 1
    /\ connectionState' = SCANNING
    /\ scanSubscription' = [scan |-> scanCount + 1]
    /\ scanSession' = scanCount + 1
    /\ scanTimers' = scanTimers \cup {scanCount + 1}
    /\ lastOp' = [op |-> "startScan"]
    /\ UNCHANGED <<connectedDevice, reconnectAttempts, connectionSubscription,
                   reconnectTimers, links, liveSubs, connects, connectCount,
                   cancels>>
    /\ BleFrame

\* stopScan called by the application
StopScan ==
    /\ scanSubscription' = Null
    /\ scanSession' = 0
    /\ lastOp' = [op |-> "stopScan"]
    /\ UNCHANGED <<connectionState, connectedDevice, reconnectAttempts,
                   connectionSubscription, scanTimers, scanCount,
                   reconnectTimers, links, liveSubs, connects, connectCount,
                   cancels>>
    /\ BleFrame

\* the auto-stop timer of scan t fires
ScanTimeout ==
    \E t \in scanTimers :
        /\ scanTimers' = scanTimers \ {t}
        /\ scanSubscription' = Null
        /\ scanSession' = 0
        /\ connectionState' = scanTimeoutState(connectionState)
        /\ lastOp' = [op |-> "scanTimeout", from |-> connectionState]
        /\ UNCHANGED <<connectedDevice, reconnectAttempts,
                       connectionSubscription, scanCount, reconnectTimers,
                       links, liveSubs, connects, connectCount, cancels>>
        /\ BleFrame

\* connect(deviceId) up to the await of the race; the devices being alike,
\* the first device connected to is called G2-A
Connect ==
    \E id \in (IF connectCount = 0 THEN {"G2-A"} ELSE DeviceIds) :
        /\ MoreCalls
        /\ connectCount' = connectCount + 1
        /\ connectionState' = CONNECTING
        /\ scanSubscription' = Null
        /\ scanSession' = 0
        /\ connects' = connects \cup
               {[n |-> connectCount + 1, deviceId |-> id, pc |-> "race"]}
        /\ lastOp' = [op |-> "connect"]
        /\ UNCHANGED <<connectedDevice, reconnectAttempts,
                       connectionSubscription, scanTimers, scanCount,
                       reconnectTimers, links, liveSubs, cancels>>
        /\ BleFrame

\* the catch block of connect: ERROR, and the error is thrown to the caller
ConnectFailed(c, why) ==
    /\ connectionState' = ERROR
    /\ lastOp' = [op |-> "connectFailed", why |-> why]
    /\ UNCHANGED <<connectedDevice, reconnectAttempts, scanSubscription,
                   connectionSubscription, scanSession, scanTimers, scanCount,
                   reconnectTimers, liveSubs, connectCount, cancels>>
    /\ BleFrame

\* connectToDevice resolves: the transport has opened the connection; a call
\* that already lost the race to the timeout is no longer listening
ConnectToDeviceResolves ==
    \E c \in connects :
        /\ c.pc \in {"race", "abandoned"}
        /\ links' = links \cup {c.deviceId}
        /\ IF c.pc = "race"
           THEN /\ connects' = (connects \ {c}) \cup {[c EXCEPT !.pc = "discover"]}
                /\ lastOp' = [op |-> "connectToDeviceResolved"]
           ELSE /\ connects' = connects \ {c}
                /\ lastOp' = [op |-> "connectToDeviceResolved"]
        /\ UNCHANGED <<connectionState, connectedDevice, reconnectAttempts,
                       scanSubscription, connectionSubscription, scanSession,
                       scanTimers, scanCount, reconnectTimers, liveSubs,
                       connectCount, cancels>>
        /\ BleFrame

ConnectToDeviceRejects ==
    \E c \in connects :
        /\ c.pc \in {"race", "abandoned"}
        /\ connects' = connects \ {c}
        /\ IF c.pc = "race"
           THEN ConnectFailed(c, "rejected") /\ UNCHANGED links
           ELSE /\ lastOp' = [op |-> "abandonedConnectRejected"]
                /\ UNCHANGED <<connectionState, connectedDevice,
                               reconnectAttempts, scanSubscription,
                               connectionSubscription, scanSession, scanTimers,
                               scanCount, reconnectTimers, links, liveSubs,
                               connectCount, cancels>>
                /\ BleFrame

\* createTimeout rejects first: connect fails, connectToDevice stays pending
ConnectTimeout ==
    \E c \in connects :
        /\ c.pc = "race"
        /\ connects' = (connects \ {c}) \cup {[c EXCEPT !.pc = "abandoned"]}
        /\ ConnectFailed(c, "timeout")
        /\ UNCHANGED links

\* discoverAllServicesAndCharacteristics resolves: lines 199-207
DiscoverResolves ==
    \E c \in connects :
        /\ c.pc = "discover"
        /\ connects' = connects \ {c}
        /\ connectedDevice' = Device(c.deviceId)
        /\ reconnectAttempts' = attemptsAfterConnect(reconnectAttempts)
        /\ connectionState' = CONNECTED
        /\ connectionSubscription' = [n |-> c.n, deviceId |-> c.deviceId]
        /\ liveSubs' = liveSubs \cup {[n |-> c.n, deviceId |-> c.deviceId]}
        /\ lastOp' = [op |-> "connected"]
        /\ UNCHANGED <<scanSubscription, scanSession, scanTimers, scanCount,
                       reconnectTimers, links, connectCount, cancels>>
        /\ BleFrame

\* discoverAllServicesAndCharacteristics rejects: the catch block runs, the
\* transport connection stays as it is
DiscoverRejects ==
    \E c \in connects :
        /\ c.pc = "discover"
        /\ connects' = connects \ {c}
        /\ ConnectFailed(c, "discover")
        /\ UNCHANGED links

\* the synchronous part of disconnect(): the subscription is removed; with a
\* device held the call awaits cancelDeviceConnection, otherwise it finishes
DisconnectBy(who) ==
    /\ connectionSubscription' = Null
    /\ liveSubs' = liveSubs \ {connectionSubscription}
    /\ IF connectedDevice # Null
       THEN /\ cancels' = cancels \cup
                   {[deviceId |-> connectedDevice.id, by |-> who,
                     connected |-> isConnected]}
            /\ lastOp' = [op |-> "disconnectAwaits", by |-> who]
            /\ UNCHANGED connectionState
       ELSE /\ connectionState' = DISCONNECTED
            /\ lastOp' = [op |-> "disconnectDone", by |-> who,
                          connected |-> isConnected, teardown |-> "none"]
            /\ UNCHANGED cancels
    /\ UNCHANGED <<connectedDevice, reconnectAttempts, scanSubscription,
                   scanSession, scanTimers, scanCount, reconnectTimers, links,
                   connects, connectCount>>
    /\ OtherFrame

\* disconnect() called by the application
Disconnect ==
    /\ MoreCalls
    /\ disconnectCount' = disconnectCount + 1
    /\ DisconnectBy("user")
    /\ UNCHANGED radio

\* onStateChange(PoweredOff): handleError, then disconnect() (not awaited)
RadioOff ==
    /\ radio = "on"
    /\ radio' = "off"
    /\ DisconnectBy("radioOff")
    /\ UNCHANGED disconnectCount

\* cancelDeviceConnection resolves: lines 235-238
CancelResolves ==
    \E k \in cancels :
        /\ cancels' = cancels \ {k}
        /\ links' = links \ {k.deviceId}
        /\ connectedDevice' = Null
        /\ connectionState' = DISCONNECTED
        /\ lastOp' = [op |-> "disconnectDone", by |-> k.by, connected |-> k.connected,
                      teardown |-> "resolved"]
        /\ UNCHANGED <<reconnectAttempts, scanSubscription,
                       connectionSubscription, scanSession, scanTimers,
                       scanCount, reconnectTimers, liveSubs, connects,
                       connectCount>>
        /\ BleFrame

\* cancelDeviceConnection rejects: the catch block logs and returns
CancelRejects ==
    \E k \in cancels :
        /\ cancels' = cancels \ {k}
        /\ lastOp' = [op |-> "disconnectDone", by |-> k.by, connected |-> k.connected,
                      teardown |-> "rejected"]
        /\ UNCHANGED <<connectionState, connectedDevice, reconnectAttempts,
                       scanSubscription, connectionSubscription, scanSession,
                       scanTimers, scanCount, reconnectTimers, links, liveSubs,
                       connects, connectCount>>
        /\ BleFrame

\* the transport loses the connection to a device; each onDisconnected
\* listener registered for it and not removed calls handleDisconnection
LinkLost ==
    \E id \in links :
        LET fired == {sub \in liveSubs : sub.deviceId = id}
            m == handleDisconnections(
                     [connectedDevice |-> connectedDevice,
                      connectionState |-> connectionState,
                      reconnectAttempts |-> reconnectAttempts,
                      reconnectTimers |-> reconnectTimers,
                      reconnect |-> FALSE],
                     Cardinality(fired))
        IN  /\ links' = links \ {id}
            /\ liveSubs' = liveSubs \ fired
            /\ connectedDevice' = m.connectedDevice
            /\ connectionState' = m.connectionState
            /\ reconnectAttempts' = m.reconnectAttempts
            /\ reconnectTimers' = m.reconnectTimers
            /\ lastOp' = [op |-> "linkLost", listeners |-> Cardinality(fired),
                          attempts |-> reconnectAttempts,
                          reconnect |-> m.reconnect]
            /\ UNCHANGED <<scanSubscription, connectionSubscription,
                           scanSession, scanTimers, scanCount, connects,
                           connectCount, cancels>>
            /\ BleFrame

\* the setTimeout callback of handleDisconnection: it only reports the error
ReconnectTimer ==
    /\ reconnectTimers > 0
    /\ reconnectTimers' = reconnectTimers - 1
    /\ lastOp' = [op |-> "reconnectTimer"]
    /\ UNCHANGED <<connectionState, connectedDevice, reconnectAttempts,
                   scanSubscription, connectionSubscription, scanSession,
                   scanTimers, scanCount, links, liveSubs, connects,
                   connectCount, cancels>>
    /\ BleFrame

NextBLE ==
    \/ StartScan
    \/ StopScan
    \/ ScanTimeout
    \/ Connect
    \/ ConnectToDeviceResolves
    \/ ConnectToDeviceRejects
    \/ ConnectTimeout
    \/ DiscoverResolves
    \/ DiscoverRejects
    \/ Disconnect
    \/ RadioOff
    \/ CancelResolves
    \/ CancelRejects
    \/ LinkLost
    \/ ReconnectTimer

SpecBLE == InitBLE /\ [][NextBLE]_vars

-----------------------------------------------------------------------------
(* Claims about the connection state machine, checked under SpecBLE *)

\* C11: the state never changes from Disconnected directly to Connected;
\* every entry into Connected is immediately preceded by Connecting.
C11_ConnectedOnlyFromConnecting ==
    [][(connectionState' = CONNECTED /\ connectionState # CONNECTED)
           => connectionState = CONNECTING]_vars

\* a step in which the transport reports a link loss to handleDisconnection
LinkLossHandled ==
    /\ lastOp'.op = "linkLost"
    /\ lastOp'.listeners > 0

\* a step in which the manager itself starts a connect
ConnectStarted == connectCount' # connectCount \/ connects' # connects

\* C12: once maxReconnectAttempts attempts are used up, a further link loss
\* leaves the machine Disconnected with no device, schedules nothing and
\* counts nothing; the counter never passes the maximum; and neither a link
\* loss nor a reconnect timer ever starts a connect or changes the state the
\* link loss left, so only the caller's startScan or connect leaves it.
C12_BoundedReconnect ==
    [][/\ reconnectAttempts' <= config.maxReconnectAttempts
       /\ (LinkLossHandled
              /\ reconnectAttempts >= config.maxReconnectAttempts)
           => /\ connectionState' = DISCONNECTED
              /\ connectedDevice' = Null
              /\ reconnectTimers' = reconnectTimers
              /\ reconnectAttempts' = reconnectAttempts
              /\ lastOp'.reconnect = FALSE
       /\ (LinkLossHandled \/ lastOp'.op = "reconnectTimer")
           => ~ConnectStarted
       /\ lastOp'.op = "reconnectTimer"
           => UNCHANGED <<connectionState, connectedDevice, links>>]_vars

\* a link loss with the attempts used up has just been handled
C12_Witness ==
    /\ lastOp.op = "linkLost"
    /\ lastOp.listeners > 0
    /\ lastOp.attempts = config.maxReconnectAttempts
    /\ config.enableAutoReconnect
    /\ connectionState = DISCONNECTED
    /\ reconnectAttempts = config.maxReconnectAttempts

\* C13: a link loss while Connected, with auto-reconnect enabled and attempts
\* left, increments the counter by exactly one, and when the reconnect delay
\* has passed a reconnect to the lost device is attempted.
C13_ReconnectAttempted ==
    [][/\ (/\ LinkLossHandled
           /\ lastOp'.listeners = 1
           /\ connectionState = CONNECTED
           /\ config.enableAutoReconnect
           /\ reconnectAttempts < config.maxReconnectAttempts)
           => /\ reconnectAttempts' = reconnectAttempts + 1
              /\ reconnectTimers' = reconnectTimers + 1
       /\ lastOp'.op = "reconnectTimer"
           => (ConnectStarted /\ connectionState' = CONNECTING)]_vars

\* C14: when a disconnect() call has ended, whether its transport teardown
\* succeeded or failed, the state is Disconnected and no device is held.
C14_DisconnectEndsDisconnected ==
    (lastOp.op = "disconnectDone" /\ lastOp.by = "user")
        => (connectionState = DISCONNECTED /\ connectedDevice = Null)

\* C15: the radio reported off while Connected: handling the event neither
\* schedules nor counts a reconnect and does not go through
\* handleDisconnection, and when the handling has ended the state is
\* Disconnected.
C15_RadioOffDisconnects ==
    [][/\ (lastOp'.op \in {"disconnectAwaits", "disconnectDone"}
              /\ lastOp'.by = "radioOff")
           => UNCHANGED <<reconnectAttempts, reconnectTimers>>
       /\ (/\ lastOp'.op = "disconnectDone"
           /\ lastOp'.by = "radioOff"
           /\ lastOp'.connected)
           => connectionState' = DISCONNECTED]_vars

\* nothing is pending: no timer, no suspended connect or disconnect call
Quiescent ==
    /\ connects = {}
    /\ cancels = {}
    /\ scanTimers = {}
    /\ reconnectTimers = 0

\* C16: after a connect that timed out or failed the machine does not remain
\* in Error: it is never in Error with nothing left that would move it on.
C16_ErrorIsLeft == ~(connectionState = ERROR /\ Quiescent)

\* C17: a scan's timer is pending as long as the state is Scanning; when it
\* fires discovery is stopped, a Scanning state becomes Disconnected and any
\* other state (a device was chosen meanwhile) is left as it is.
C17_ScanAutoStop ==
    [][/\ connectionState' = SCANNING => scanTimers' # {}
       /\ lastOp'.op = "scanTimeout"
           => /\ scanSession' = 0
              /\ scanSubscription' = Null
              /\ connectionState = SCANNING => connectionState' = DISCONNECTED
              /\ connectionState # SCANNING
                    => connectionState' = connectionState]_vars

\* the timer of a scan started from Disconnected has fired with no device
\* chosen, and the state is back to Disconnected with discovery stopped
C17_Witness ==
    /\ lastOp.op = "scanTimeout"
    /\ lastOp.from = SCANNING
    /\ connectCount = 0
    /\ disconnectCount = 0
    /\ radio = "on"
    /\ connectionState = DISCONNECTED
    /\ scanSession = 0

\* C18: at most one transport connection is open at any time.
C18_SingleConnection == Cardinality(links) <= 1

\* C19: startScan while Connected, and the timeout of that scan, leave the
\* state Connected and the connection handle unchanged.
C19_ScanLeavesConnection ==
    [][(lastOp'.op \in {"startScan", "scanTimeout"}
           /\ connectionState = CONNECTED)
          => (connectionState' = CONNECTED
                 /\ connectedDevice' = connectedDevice)]_vars

\* C26: reconnectAttempts is 0 whenever the state enters Connected, it is
\* incremented only by the handling of a link loss, and it stays between 0
\* and maxReconnectAttempts.
C26_ReconnectAttemptsBounded ==
    [][/\ (connectionState' = CONNECTED /\ connectionState # CONNECTED)
            => reconnectAttempts' = 0
       /\ reconnectAttempts' > reconnectAttempts => lastOp'.op = "linkLost"
       /\ reconnectAttempts \in 0..config.maxReconnectAttempts
       /\ reconnectAttempts' \in 0..config.maxReconnectAttempts]_vars

\* a connect has completed after a link loss had counted a reconnect attempt
\* (the timer of that attempt is still pending)
C26_Witness ==
    /\ lastOp.op = "connected"
    /\ connectionState = CONNECTED
    /\ reconnectTimers > 0
    /\ reconnectAttempts = 0

\* C27: the auto-stop timer of an earlier scan, firing while a newer scan
\* is live, neither stops the newer scan nor changes the state.
C27_StaleScanTimerHarmless ==
    [][\A t \in scanTimers \ scanTimers' :
          (scanSession # 0 /\ t # scanSession)
              => (scanSession' = scanSession
                  /\ connectionState' = connectionState)]_vars

\* at most one discovery session is live: the session startScan opens is
\* the only one, the earlier one having been stopped
C27_OneDiscoverySession ==
    scanSubscription # Null => scanSubscription.scan = scanSession

\* C33: while no connect and no disconnect is under way, the state is
\* Connected exactly when a device is held.
C33_StateAgreesWithHandle ==
    (connects = {} /\ cancels = {})
        => ((connectionState = CONNECTED) <=> (connectedDevice # Null))

\* C34: when connect fails after the transport connected (service discovery
\* failed), the transport connection to the device is not left open; and an
\* attempt abandoned by the timeout opens none later.
C34_NoLeakedConnection ==
    [][/\ (lastOp'.op = "connectFailed" /\ lastOp'.why = "discover")
            => \A c \in connects \ connects' : c.deviceId \notin links'
       /\ \A c \in connects \ connects' :
             (c.pc = "abandoned" /\ connectionState' # CONNECTED)
                => c.deviceId \notin links']_vars

-----------------------------------------------------------------------------
(* AppCoordinator.updateDisplay: one display update batch on a connected   *)
(* manager.  Each awaited sendCommand is two steps: the call (the check of *)
(* connectedDevice, the encoding and the start of the write) and the       *)
(* transport resolving or rejecting the write.  wire holds the commands    *)
(* whose write the transport acknowledged; their bytes are encode(command).*)

\* eventInfo.displayText, "" standing for an absent optional string
DisplayTexts ==
    [title : Titles, timeRange : TimeRanges, location : Locations,
     timeUntil : TimeUntils, duration : Durations]

mapAlignment(alignment) ==
    CASE alignment = "center" -> "CENTER"
      [] alignment = "right" -> "RIGHT"
      [] OTHER -> "LEFT"

\* the command updateDisplay builds for an element
TextCommandOf(element) ==
    [type |-> TEXT,
     text |-> element.content,
     x |-> element.region.x,
     y |-> element.region.y,
     alignment |-> mapAlignment(element.style.alignment),
     fontSize |-> element.style.fontSize,
     bold |-> element.style.bold]

\* a loop that leaves out the element after the next one
NextVisible_SkipsOne(elements, i) ==
    IF i + 2 > Len(elements) THEN Len(elements) + 1 ELSE i + 2

\* the index of the first element after i that the loop does not skip with
\* `continue`, Len(elements) + 1 when there is none
RECURSIVE NextVisible(_, _)
NextVisible(elements, i) ==
    IF i + 1 > Len(elements) THEN Len(elements) + 1
    ELSE IF elements[i + 1].visible THEN i + 1
    ELSE NextVisible(elements, i + 1)

\* the loop of updateDisplay from the element after i: the call of
\* sendCommand for the next element (which throws when no device is held),
\* or the end of the loop
SendNext(call, i) ==
    LET j == NextVisible(call.elements, i)
    IN  IF j > Len(call.elements)
        THEN [call EXCEPT !.pc = "done"]
        ELSE IF connectedDevice = Null
        THEN [call EXCEPT !.pc = "failed", !.i = j, !.error = "No device connected"]
        ELSE [call EXCEPT !.pc = "writing", !.i = j]

\* the catch block of updateDisplay after sendCommand for element i threw:
\* the error is logged and thrown to the caller, the loop is left
WriteFailed(call, i) ==
    [call EXCEPT !.pc = "failed", !.error = "WRITE_FAILED"]

\* the manager after connect(id) has completed, nothing else having been
\* called
ConnectedTo(id) ==
    /\ connectionState = CONNECTED
    /\ connectedDevice = Device(id)
    /\ reconnectAttempts = 0
    /\ scanSubscription = Null
    /\ connectionSubscription = [n |-> 1, deviceId |-> id]
    /\ scanSession = 0
    /\ scanTimers = {}
    /\ scanCount = 0
    /\ reconnectTimers = 0
    /\ links = {id}
    /\ liveSubs = {[n |-> 1, deviceId |-> id]}
    /\ connects = {}
    /\ connectCount = 1
    /\ cancels = {}
    /\ disconnectCount = 0
    /\ radio = "on"
    /\ lastOp = [op |-> "connected"]

InitBatch ==
    /\ config \in Configs
    /\ ConnectedTo("G2-A")
    /\ eventInfo \in DisplayTexts
    /\ ud = Null
    /\ wire = <<>>
    /\ eventInfo2 = Null
    /\ ud2 = Null
    /\ wireBy = <<>>
    /\ AuxIdle
    /\ CodecIdle
    /\ DiffIdle

BatchFrame == UNCHANGED <<codecVars, bleVars, eventInfo, eventInfo2, auxVars>>

\* updateDisplay(eventInfo) up to the await of clearDisplay(), c being the
\* call before the step and cNext the call after it
UpdateDisplayStep(c, cNext) ==
    /\ c = Null
    /\ cNext = IF ~isConnected
               THEN [pc |-> "skipped", elements |-> <<>>, i |-> 0, error |-> "none"]
               ELSE IF connectedDevice = Null
               THEN [pc |-> "failed", elements |-> <<>>, i |-> 0,
                     error |-> "No device connected"]
               ELSE [pc |-> "writing", elements |-> <<>>, i |-> 0, error |-> "none"]
    /\ UNCHANGED <<wire, wireBy, diffVars>>
    /\ BatchFrame

\* the transport acknowledges the write of the clear command (i = 0) or of
\* element i of call k; after the clear the layout is created and rendered
\* and sendCommand is called for the first element, after an element the
\* 50 ms delay is awaited
WriteResolvesStep(k, info, c, cNext) ==
    /\ c # Null
    /\ c.pc = "writing"
    /\ IF c.i = 0
       THEN LET layout == createCalendarLayout(info.title, info.timeRange,
                              info.location, info.timeUntil, info.duration)
                upd == renderLayout(layout)
            IN  /\ wire' = Append(wire, [type |-> CLEAR])
                /\ currentLayout' = layout
                /\ cNext = SendNext([c EXCEPT !.elements = upd.elements], 0)
       ELSE /\ wire' = Append(wire, TextCommandOf(c.elements[c.i]))
            /\ cNext = [c EXCEPT !.pc = "delay"]
            /\ UNCHANGED currentLayout
    /\ wireBy' = Append(wireBy, k)
    /\ UNCHANGED <<previous, current, update>>
    /\ BatchFrame

\* the transport rejects the write: sendCommand throws WRITE_FAILED
WriteRejectsStep(c, cNext) ==
    /\ c # Null
    /\ c.pc = "writing"
    /\ cNext = WriteFailed(c, c.i)
    /\ UNCHANGED <<wire, wireBy, diffVars>>
    /\ BatchFrame

\* the delay after element i has passed: the loop goes on
DelayElapsesStep(c, cNext) ==
    /\ c # Null
    /\ c.pc = "delay"
    /\ cNext = SendNext(c, c.i)
    /\ UNCHANGED <<wire, wireBy, diffVars>>
    /\ BatchFrame

UpdateDisplay == UpdateDisplayStep(ud, ud') /\ UNCHANGED ud2

WriteResolves == WriteResolvesStep(1, eventInfo, ud, ud') /\ UNCHANGED ud2

WriteRejects == WriteRejectsStep(ud, ud') /\ UNCHANGED ud2

DelayElapses == DelayElapsesStep(ud, ud') /\ UNCHANGED ud2

\* one call of updateDisplay on a connected manager, with a link loss, a
\* scan started by the application and the scan's auto-stop timer as in the
\* connection state machine
NextBatch ==
    \/ UpdateDisplay
    \/ WriteResolves
    \/ WriteRejects
    \/ DelayElapses
    \/ LinkLost
    \/ StartScan
    \/ ScanTimeout

SpecBatch == InitBatch /\ [][NextBatch]_vars

\* the indices of the visible elements of the batch
VisibleIndices(call) ==
    {j \in 1..Len(call.elements) : call.elements[j].visible}

\* the elements of the batch that were written, in the order of the writes
WrittenTexts == SelectSeq(wire, LAMBDA c : c.type = TEXT)

\* C20: when the update has ended with a failed send of one element, the
\* failure is reported and every other visible element of the batch has
\* been sent.
C20_RemainingElementsSent ==
    (ud # Null /\ ud.pc = "failed" /\ ud.i > 0)
        => Len(WrittenTexts) = Cardinality(VisibleIndices(ud)) - 1

-----------------------------------------------------------------------------
(* Two calls of updateDisplay: the calendar listener, the connection-state
   listener, connectToDevice and the auto-update timer each call
   updateDisplay on their own, and nothing in AppCoordinator queues or locks
   the calls *)

\* the displayText values of the two calls
DispatchTexts ==
    {t \in DisplayTexts :
        /\ t.timeRange = "10:00 AM - 10:30 AM"
        /\ t.location = ""
        /\ t.timeUntil \in {"", "In progress"}
        /\ t.duration = ""}

InitDispatch ==
    /\ config \in Configs
    /\ ConnectedTo("G2-A")
    /\ eventInfo \in DispatchTexts
    /\ ud = Null
    /\ wire = <<>>
    /\ eventInfo2 \in DispatchTexts
    /\ ud2 = Null
    /\ wireBy = <<>>
    /\ AuxIdle
    /\ CodecIdle
    /\ DiffIdle

\* the second trigger calls updateDisplay(eventInfo2)
UpdateDisplay2 == UpdateDisplayStep(ud2, ud2') /\ UNCHANGED ud

WriteResolves2 == WriteResolvesStep(2, eventInfo2, ud2, ud2') /\ UNCHANGED ud

WriteRejects2 == WriteRejectsStep(ud2, ud2') /\ UNCHANGED ud

DelayElapses2 == DelayElapsesStep(ud2, ud2') /\ UNCHANGED ud

NextDispatch ==
    \/ UpdateDisplay
    \/ WriteResolves
    \/ WriteRejects
    \/ DelayElapses
    \/ UpdateDisplay2
    \/ WriteResolves2
    \/ WriteRejects2
    \/ DelayElapses2

SpecDispatch == InitDispatch /\ [][NextDispatch]_vars

\* C21: the commands of two display updates never interleave on the wire:
\* no command of one update lies between two commands of the other.
C21_UpdatesSerialized ==
    \A a, b, c \in 1..Len(wireBy) :
        (a < b /\ b < c /\ wireBy[a] = wireBy[c]) => wireBy[b] = wireBy[a]

-----------------------------------------------------------------------------
(* Claims about one display update, checked under SpecBatch *)

\* a step in which sendCommand hands a write to the transport
WriteIssued ==
    /\ ud' # Null
    /\ ud'.pc = "writing"
    /\ (ud = Null \/ ud.pc # "writing" \/ ud.i # ud'.i)

\* C22: a command is handed to the transport only while the connection
\* state is Connected.
C22_WritesOnlyWhileConnected ==
    [][WriteIssued => connectionState = CONNECTED]_vars

\* the timers of the program run: the 50 ms delay of the loop elapses and a
\* scan's auto-stop timer fires; the peripheral need not answer a write
SpecBatchFair ==
    SpecBatch /\ WF_vars(DelayElapses) /\ WF_vars(ScanTimeout)

\* a write of the update is waiting for the transport's answer
WriteInFlight == ud # Null /\ ud.pc = "writing"

\* C23: a write that the peripheral does not answer is ended by a timeout:
\* a write in flight does not stay in flight forever.
C23_WriteEnds == WriteInFlight ~> ~WriteInFlight

\* the Text commands of the visible elements of the update, in the order
\* of the element list
RECURSIVE ExpectedTexts(_)
ExpectedTexts(elements) ==
    IF elements = <<>> THEN <<>>
    ELSE (IF Head(elements).visible
          THEN <<TextCommandOf(Head(elements))>> ELSE <<>>)
           \o ExpectedTexts(Tail(elements))

\* the elements the update's layout holds, by region, visible or not
LayoutElements(info) ==
    LET layout == createCalendarLayout(info.title, info.timeRange,
                      info.location, info.timeUntil, info.duration)
        at(id) == IF id \in DOMAIN layout THEN <<layout[id]>> ELSE <<>>
    IN  at("title") \o at("timeRange") \o at("location") \o at("timeUntil")
          \o at("duration")

IsPrefix(s, t) == Len(s) <= Len(t) /\ s = SubSeq(t, 1, Len(s))

\* C25: within one update the clear is written before any Text, the Texts
\* are written in element-list order one at a time (a Text is handed to the
\* transport only after every earlier write was acknowledged), no Text is
\* written for an element that is not visible, and an update that ends
\* without a failure has written them all.
C25_ClearThenTextsInOrder ==
    LET expected == ExpectedTexts(LayoutElements(eventInfo))
    IN  /\ wire # <<>> => wire[1] = [type |-> CLEAR]
        /\ \A n \in 2..Len(wire) : wire[n].type = TEXT
        /\ IsPrefix(WrittenTexts, expected)
        /\ (ud # Null /\ ud.pc = "writing" /\ ud.i > 0) =>
              /\ Len(wire) = Len(WrittenTexts) + 1
              /\ Len(WrittenTexts) < Len(expected)
              /\ TextCommandOf(ud.elements[ud.i])
                    = expected[Len(WrittenTexts) + 1]
        /\ (ud # Null /\ ud.pc = "done") => WrittenTexts = expected

\* an update has ended having written the clear and three Texts, the
\* timeUntil element of its layout not being visible
C25_Witness ==
    /\ ud # Null
    /\ ud.pc = "done"
    /\ eventInfo.timeUntil = ""
    /\ Len(wire) = 4
    /\ wire[1].type = CLEAR
    /\ wire[4].text = eventInfo.duration

-----------------------------------------------------------------------------
(* DisplayRenderer.wrapText; a string is the sequence of its characters *)

MaxWrapLen == 5
MaxWrapLines == 2

avgCharWidth == 8

\* text.split(' '): the pieces between the spaces, empty pieces included
RECURSIVE splitFrom(_, _, _, _)
splitFrom(text, i, word, words) ==
    IF i > Len(text) THEN Append(words, word)
    ELSE IF text[i] = " "
    THEN splitFrom(text, i + 1, <<>>, Append(words, word))
    ELSE splitFrom(text, i + 1, Append(word, text[i]), words)

split(text) == splitFrom(text, 1, <<>>, <<>>)

\* line.slice(0, -3) + '...'
withEllipsis(line) ==
    SubSeq(line, 1, Max(Len(line) - 3, 0)) \o <<".", ".", ".">>

\* the for loop of wrapText from word k on; the result holds lines and
\* currentLine as the loop leaves them
RECURSIVE wrapLoop(_, _, _, _, _)
wrapLoop(words, k, lines, currentLine, options) ==
    IF k > Len(words) THEN [lines |-> lines, currentLine |-> currentLine]
    ELSE
        LET word == words[k]
            maxCharsPerLine == options.maxWidth \div avgCharWidth
            testLine == IF currentLine # <<>>
                        THEN currentLine \o <<" ">> \o word
                        ELSE word
            pushed == IF currentLine # <<>>
                      THEN Append(lines, currentLine)
                      ELSE lines
        IN  IF Len(testLine) <= maxCharsPerLine
            THEN wrapLoop(words, k + 1, lines, testLine, options)
            ELSE IF Len(pushed) >= options.maxLines
            THEN [lines |-> IF options.ellipsis
                            THEN [pushed EXCEPT ![Len(pushed)] = withEllipsis(@)]
                            ELSE pushed,
                  currentLine |-> currentLine]
            ELSE wrapLoop(words, k + 1, pushed, word, options)

wrapText(text, options) ==
    LET r == wrapLoop(split(text), 1, <<>>, <<>>, options)
    IN  IF r.currentLine # <<>> /\ Len(r.lines) < options.maxLines
        THEN Append(r.lines, r.currentLine)
        ELSE r.lines

WrapChars == {"a", " "}

RECURSIVE WrapTextsUpTo(_)
WrapTextsUpTo(n) ==
    IF n = 0 THEN {<<>>}
    ELSE LET shorter == WrapTextsUpTo(n - 1)
         IN  shorter \cup {Append(t, c) : t \in shorter, c \in WrapChars}

\* widths giving 1, 2 and 3 characters per line
WrapOptions ==
    [maxWidth : {8, 20, 24}, maxLines : 1..MaxWrapLines, ellipsis : BOOLEAN]

InitWrap ==
    /\ wrapIn \in [text : WrapTextsUpTo(MaxWrapLen), options : WrapOptions]
    /\ wrapOut = Null
    /\ CalendarIdle
    /\ ImageIdle
    /\ HubIdle
    /\ CodecIdle
    /\ DiffIdle
    /\ ManagerIdle

WrapText ==
    /\ wrapOut = Null
    /\ wrapOut' = [lines |-> wrapText(wrapIn.text, wrapIn.options)]
    /\ UNCHANGED <<wrapIn, calendarVars, imageVars, hubVars, codecVars,
                   diffVars, bleVars, appVars>>

NextWrap == WrapText

SpecWrap == InitWrap /\ [][NextWrap]_vars

\* the words of a text that are not empty
WordsOf(text) == SelectSeq(split(text), LAMBDA w : w # <<>>)

\* the words of the lines, in order
RECURSIVE WordsOfLines(_)
WordsOfLines(lines) ==
    IF lines = <<>> THEN <<>>
    ELSE WordsOf(Head(lines)) \o WordsOfLines(Tail(lines))

\* the lines the text takes when the number of lines is not limited
UnlimitedLines(text, options) ==
    wrapText(text, [options EXCEPT !.maxLines = Len(text) + 1])

EndsWithEllipsis(line) ==
    Len(line) >= 3 /\ SubSeq(line, Len(line) - 2, Len(line)) = <<".", ".", ".">>

\* C24: wrapText returns at most maxLines lines; when the text needs more
\* lines, the last returned line ends with an ellipsis (the option being
\* set) and the lines before it are the text's first lines; when the text
\* fits, the lines are those of the text, every word on them.
C24_WrapWithinMaxLines ==
    wrapOut # Null =>
        LET text == wrapIn.text
            options == wrapIn.options
            lines == wrapOut.lines
            free == UnlimitedLines(text, options)
        IN  /\ Len(lines) <= options.maxLines
            /\ (Len(free) > options.maxLines /\ options.ellipsis) =>
                  /\ Len(lines) = options.maxLines
                  /\ EndsWithEllipsis(lines[Len(lines)])
                  /\ SubSeq(lines, 1, Len(lines) - 1)
                        = SubSeq(free, 1, Len(lines) - 1)
            /\ Len(free) <= options.maxLines =>
                  /\ lines = free
                  /\ WordsOfLines(lines) = WordsOf(text)

\* the same for a text whose words are separated by single spaces, none
\* leading or trailing
C24_SingleSpaces ==
    (wrapOut # Null /\ \A n \in 1..Len(split(wrapIn.text)) :
                            split(wrapIn.text)[n] # <<>>)
        => C24_WrapWithinMaxLines

-----------------------------------------------------------------------------
(* CalendarService: getNextEvent and the next-event notification.  A date is
   a number; an event is [id, startDate, status]; a NextEventInfo is
   [event, timeUntilStart] (isStartingSoon, isInProgress and displayText are
   computed from these and read by no comparison). *)

MaxPolls == 3
MaxEvents == 2

\* events.filter(e => e.status !== EventStatus.CANCELLED)
excludeCancelled(events) == SelectSeq(events, LAMBDA e : e.status # "CANCELLED")

\* one event put into a list sorted by start date, behind the events that
\* start no later
RECURSIVE insertByStart(_, _)
insertByStart(sorted, e) ==
    IF sorted = <<>> THEN <<e>>
    ELSE IF sorted[Len(sorted)].startDate <= e.startDate
    THEN Append(sorted, e)
    ELSE Append(insertByStart(SubSeq(sorted, 1, Len(sorted) - 1), e),
                sorted[Len(sorted)])

\* events.sort((a, b) => a.startDate.getTime() - b.startDate.getTime())
RECURSIVE sortByStart(_)
sortByStart(events) ==
    IF events = <<>> THEN <<>>
    ELSE insertByStart(sortByStart(SubSeq(events, 1, Len(events) - 1)),
                       events[Len(events)])

\* getEvents({startDate: now, excludeCancelled: true}) on what the native
\* calendar returned
getEvents(nativeEvents) == sortByStart(excludeCancelled(nativeEvents))

\* the NextEventInfo getNextEvent computes at time now, Null when no event
\* starts after now
computeNextEvent(nativeEvents, now) ==
    LET events == getEvents(nativeEvents)
        later == {n \in 1..Len(events) : events[n].startDate > now}
    IN  IF later = {} THEN Null
        ELSE LET nextEvent == events[CHOOSE n \in later : \A m \in later : n <= m]
             IN  [event |-> nextEvent,
                  timeUntilStart |-> nextEvent.startDate - now]

\* a comparison of the whole NextEventInfo records
hasNextEventChanged_WholeRecord(prev, cur) == prev # cur

hasNextEventChanged(prev, cur) ==
    IF prev = Null /\ cur = Null THEN FALSE
    ELSE IF prev = Null \/ cur = Null THEN TRUE
    ELSE prev.event.id # cur.event.id

\* the times of the polls and the start dates of the events
PollTimes == {0, 1}
StartDates == {1, 2}

CalendarEvents ==
    [id : {"e1", "e2"}, startDate : StartDates,
     status : {"CONFIRMED", "CANCELLED"}]

RECURSIVE EventListsUpTo(_)
EventListsUpTo(n) ==
    IF n = 0 THEN {<<>>}
    ELSE LET shorter == EventListsUpTo(n - 1)
         IN  shorter \cup {Append(l, e) : l \in shorter, e \in CalendarEvents}

InitCalendar ==
    /\ CalendarIdle
    /\ WrapIdle
    /\ ImageIdle
    /\ HubIdle
    /\ CodecIdle
    /\ DiffIdle
    /\ ManagerIdle

CalendarFrame ==
    UNCHANGED <<wrapVars, imageVars, hubVars, codecVars, diffVars, bleVars,
                appVars>>

\* getNextEvent, the native calendar answering: updateNextEvent is called
\* with what was computed
GetNextEvent ==
    /\ pollCount < MaxPolls
    /\ \E now \in PollTimes, nativeEvents \in EventListsUpTo(MaxEvents) :
          LET event == computeNextEvent(nativeEvents, now)
          IN  /\ lastPoll' = [computed |-> event, failed |-> FALSE]
              /\ IF hasNextEventChanged(currentNextEvent, event)
                 THEN /\ currentNextEvent' = event
                      /\ notified' = Append(notified, event)
                 ELSE UNCHANGED <<currentNextEvent, notified>>
    /\ pollCount' = pollCount + 1
    /\ CalendarFrame

\* getNextEvent, the native calendar failing: the catch block reports the
\* error and returns null without calling updateNextEvent
GetNextEventFails ==
    /\ pollCount < MaxPolls
    /\ lastPoll' = [computed |-> Null, failed |-> TRUE]
    /\ pollCount' = pollCount + 1
    /\ UNCHANGED <<currentNextEvent, notified>>
    /\ CalendarFrame

NextCalendar == GetNextEvent \/ GetNextEventFails

SpecCalendar == InitCalendar /\ [][NextCalendar]_vars

\* the event the listeners were last given, none before the first
\* notification
LastNotified == IF notified = <<>> THEN Null ELSE notified[Len(notified)]

\* two next events differ in presence or in event id
DiffersInPresenceOrId(a, b) ==
    \/ (a = Null) # (b = Null)
    \/ (a # Null /\ b # Null /\ a.event.id # b.event.id)

\* C29: a poll that computed a next event notifies the listeners, once and
\* with that event, exactly when it differs from the last notified one in
\* presence or in event id; otherwise nothing is notified and
\* currentNextEvent stays as it was.
C29_NotifiedOnChangeOnly ==
    [][(pollCount' # pollCount /\ ~lastPoll'.failed) =>
          IF DiffersInPresenceOrId(lastPoll'.computed, LastNotified)
          THEN /\ notified' = Append(notified, lastPoll'.computed)
               /\ currentNextEvent' = lastPoll'.computed
          ELSE /\ notified' = notified
               /\ currentNextEvent' = currentNextEvent]_vars

\* the last poll computed the event already notified, its start now nearer,
\* and nothing more was notified
C29_Witness ==
    /\ lastPoll # Null
    /\ ~lastPoll.failed
    /\ lastPoll.computed # Null
    /\ currentNextEvent # Null
    /\ lastPoll.computed.event.id = currentNextEvent.event.id
    /\ lastPoll.computed.timeUntilStart < currentNextEvent.timeUntilStart
    /\ pollCount = 2
    /\ Len(notified) = 1

-----------------------------------------------------------------------------
(* EvenHubBridge: the image queue.  The images of successive updateImage
   calls are numbered 1, 2, ... in the order of the calls; imagesSent holds,
   for every call of bridge.updateImageRawData, the image and how the call
   ended ("pending" while the SDK has not answered). *)

MaxImages == 4

\* a queue processor that starts whenever the bridge is there
mayStartSending_IgnoresFlag(sending, b) == b # Null

\* the negation of `this.isSendingImage || !this.bridge`
mayStartSending(sending, b) == ~(sending \/ b = Null)

InitImage ==
    /\ ImageIdle
    /\ WrapIdle
    /\ CalendarIdle
    /\ HubIdle
    /\ CodecIdle
    /\ DiffIdle
    /\ ManagerIdle

ImageFrame ==
    UNCHANGED <<wrapVars, calendarVars, hubVars, codecVars, diffVars, bleVars,
                appVars>>

\* init(): waitForEvenAppBridge resolves
InitBridge ==
    /\ bridge = Null
    /\ bridge' = [sdk |-> "EvenAppBridge"]
    /\ UNCHANGED <<imageQueue, isSendingImage, inFlight, imagesSent, imageCount>>
    /\ ImageFrame

\* updateImage(data) up to the first await: the image is queued and, when
\* no processor is running and the bridge is there, the processor starts
\* and hands the head of the queue to the SDK
UpdateImage ==
    /\ imageCount < MaxImages
    /\ imageCount' = imageCount + 1
    /\ LET queue == Append(imageQueue, imageCount + 1)
       IN  IF mayStartSending(isSendingImage, bridge)
           THEN /\ isSendingImage' = TRUE
                /\ imageQueue' = Tail(queue)
                /\ inFlight' = inFlight \cup {Head(queue)}
                /\ imagesSent' = Append(imagesSent,
                                    [data |-> Head(queue), result |-> "pending"])
           ELSE /\ imageQueue' = queue
                /\ UNCHANGED <<isSendingImage, inFlight, imagesSent>>
    /\ UNCHANGED bridge
    /\ ImageFrame

\* the call of updateImageRawData for image d has ended with result r: the
\* while loop of its processor takes the next image or ends
SendEnds(d, r) ==
    /\ inFlight # {}
    /\ d \in inFlight
    /\ LET ended == [n \in 1..Len(imagesSent) |->
                        IF imagesSent[n].data = d /\ imagesSent[n].result = "pending"
                        THEN [imagesSent[n] EXCEPT !.result = r]
                        ELSE imagesSent[n]]
       IN  IF imageQueue # <<>>
           THEN /\ imageQueue' = Tail(imageQueue)
                /\ inFlight' = (inFlight \ {d}) \cup {Head(imageQueue)}
                /\ imagesSent' = Append(ended,
                                    [data |-> Head(imageQueue), result |-> "pending"])
                /\ UNCHANGED isSendingImage
           ELSE /\ isSendingImage' = FALSE
                /\ inFlight' = inFlight \ {d}
                /\ imagesSent' = ended
                /\ UNCHANGED imageQueue
    /\ UNCHANGED <<bridge, imageCount>>
    /\ ImageFrame

\* the SDK answers: success, or a result that is not a success (a warning)
SendResolves == \E d \in inFlight, r \in {"success", "failure"} : SendEnds(d, r)

\* the SDK call throws: the catch block logs the error
SendRejects == \E d \in inFlight : SendEnds(d, "error")

NextImage == InitBridge \/ UpdateImage \/ SendResolves \/ SendRejects

SpecImage == InitImage /\ [][NextImage]_vars

\* a step in which a send ends without success
SendFailed ==
    \E n \in 1..Len(imagesSent) :
        /\ imagesSent[n].result = "pending"
        /\ imagesSent'[n].result \in {"failure", "error"}

\* C30: at most one updateImageRawData call is in flight; the images are
\* handed to the SDK in the order of their updateImage calls, the queue
\* holding the later ones in that order; and when a send fails while images
\* are queued, the first of them is handed to the SDK next.
C30_SerialImageSending ==
    /\ [](/\ Cardinality(inFlight) <= 1
          /\ \A n \in 1..Len(imagesSent) : imagesSent[n].data = n
          /\ \A n \in 1..Len(imageQueue) :
                imageQueue[n] = Len(imagesSent) + n)
    /\ [][(SendFailed /\ imageQueue # <<>>) =>
             /\ Len(imagesSent') = Len(imagesSent) + 1
             /\ imagesSent'[Len(imagesSent')]
                   = [data |-> Head(imageQueue), result |-> "pending"]]_vars

\* three images were given while the first was being sent; the first send
\* threw, the second was not a success, and the third is now with the SDK
C30_Witness ==
    /\ Len(imagesSent) = 3
    /\ imagesSent[1].result = "error"
    /\ imagesSent[2].result = "failure"
    /\ imagesSent[3].result = "pending"
    /\ inFlight = {3}
    /\ imageQueue = <<>>

-----------------------------------------------------------------------------
(* The next event becomes none during a display update: the calendar
   listener calls AppCoordinator.clearDisplay while updateDisplay runs.  ud2
   is the clearDisplay call; during tells whether the update was under way
   when it was called. *)

InitClear ==
    /\ config \in Configs
    /\ ConnectedTo("G2-A")
    /\ eventInfo \in DispatchTexts
    /\ ud = Null
    /\ wire = <<>>
    /\ eventInfo2 = Null
    /\ ud2 = Null
    /\ wireBy = <<>>
    /\ AuxIdle
    /\ CodecIdle
    /\ DiffIdle

\* clearDisplay() up to the await of the write
ClearDisplay ==
    /\ ud2 = Null
    /\ ud2' = [pc |-> IF ~isConnected THEN "skipped"
                      ELSE IF connectedDevice = Null THEN "failed"
                      ELSE "clearing",
               during |-> (ud # Null /\ ud.pc \in {"writing", "delay"})]
    /\ UNCHANGED <<ud, wire, wireBy, diffVars>>
    /\ BatchFrame

\* the transport acknowledges the clear
ClearResolves ==
    /\ ud2 # Null
    /\ ud2.pc = "clearing"
    /\ ud2' = [ud2 EXCEPT !.pc = "done"]
    /\ wire' = Append(wire, [type |-> CLEAR])
    /\ wireBy' = Append(wireBy, 2)
    /\ UNCHANGED <<ud, diffVars>>
    /\ BatchFrame

\* the transport rejects the clear: the error goes to the listener's catch
ClearRejects ==
    /\ ud2 # Null
    /\ ud2.pc = "clearing"
    /\ ud2' = [ud2 EXCEPT !.pc = "failed"]
    /\ UNCHANGED <<ud, wire, wireBy, diffVars>>
    /\ BatchFrame

NextClear ==
    \/ UpdateDisplay
    \/ WriteResolves
    \/ WriteRejects
    \/ DelayElapses
    \/ ClearDisplay
    \/ ClearResolves
    \/ ClearRejects

SpecClear == InitClear /\ [][NextClear]_vars

\* C35: once the clear for "no next event" has been written, the update
\* that was under way hands no further command to the transport.
C35_NothingAfterClear ==
    [][(ud2 # Null /\ ud2.pc = "done" /\ ud2.during) => ~WriteIssued]_vars

-----------------------------------------------------------------------------
(* The Even Hub application (evenhub-version): the store (store.ts), the
   event mapper and the orchestration of app.ts.

   storeState is the AppState on the fields the reducer and the listeners
   read: phase, menuSelectedIndex, showDebugInfo, error, upcomingEvents and
   nextEvent, syncStatus.isSyncing and syncStatus.error (the timestamps and
   the settings, which no action of the application changes, are left out).
   appRt holds the module variables of app.ts: whether the store listener is
   subscribed (storeUnsubscribe), whether the sync timer runs (syncInterval),
   whether the SDK events are subscribed, how far initApp has come, the
   number of calendar fetches in flight (fetches), whether the fetch awaited
   by initApp is in flight (initFetch), the number of fetches started so far
   and the number of runs of shutdownApp.  A dispatch runs the reducer and,
   when the reducer returned a new object, the listener, which may dispatch
   again (syncCalendar called from handleMenuActions). *)

MaxFetches == 4

maxIndex == 4

createInitialState ==
    [phase |-> "loading", nextEvent |-> Null, upcomingEvents |-> <<>>,
     isSyncing |-> FALSE, syncError |-> Null, menuSelectedIndex |-> 0,
     showDebugInfo |-> FALSE, error |-> Null]

\* getNextEvent(events) of format-utils on a list of upcoming events in the
\* order of their start
getFirstEvent(events) == IF events = <<>> THEN Null ELSE [id |-> events[1]]

\* a cursor that moves down without a limit
navigateDown_Unbounded(index) == index + 1

\* Math.min(maxIndex, state.menuSelectedIndex + 1)
navigateDown(index) == Min(maxIndex, index + 1)

\* handleMenuSelection: the state returned and whether it is a new object
handleMenuSelection(state) ==
    CASE state.menuSelectedIndex = 0 ->
            [state |-> [state EXCEPT !.phase = "syncing"], changed |-> TRUE]
      [] state.menuSelectedIndex = 1 ->
            [state |-> [state EXCEPT !.phase = "settings"], changed |-> TRUE]
      [] state.menuSelectedIndex = 2 ->
            [state |-> [state EXCEPT !.phase = "eventDetails"], changed |-> TRUE]
      [] state.menuSelectedIndex = 3 ->
            [state |-> [state EXCEPT !.showDebugInfo = ~@, !.phase = "idle"],
             changed |-> TRUE]
      [] OTHER -> [state |-> state, changed |-> FALSE]

\* reducer: the state returned and whether it is a new object (`return
\* state` gives the same object, a spread gives a new one even when every
\* field is equal)
reducer(state, action) ==
    LET new(s) == [state |-> s, changed |-> TRUE]
        same == [state |-> state, changed |-> FALSE]
    IN  CASE action.type = "INIT_SUCCESS" ->
                new([state EXCEPT !.phase = "idle", !.error = Null])
          [] action.type = "INIT_ERROR" ->
                new([state EXCEPT !.phase = "error", !.error = action.error])
          [] action.type = "SYNC_START" ->
                new([state EXCEPT !.phase = "syncing", !.isSyncing = TRUE,
                                  !.syncError = Null])
          [] action.type = "SYNC_SUCCESS" ->
                new([state EXCEPT !.phase = "idle",
                                  !.upcomingEvents = action.events,
                                  !.nextEvent = getFirstEvent(action.events),
                                  !.isSyncing = FALSE, !.syncError = Null,
                                  !.error = Null])
          [] action.type = "SYNC_ERROR" ->
                new([state EXCEPT !.phase = "error", !.isSyncing = FALSE,
                                  !.syncError = action.error,
                                  !.error = action.error])
          [] action.type = "UPDATE_NEXT_EVENT" ->
                new([state EXCEPT !.nextEvent = action.event])
          [] action.type = "NAVIGATE_UP" ->
                IF state.phase = "menu"
                THEN new([state EXCEPT !.menuSelectedIndex = Max(0, @ - 1)])
                ELSE same
          [] action.type = "NAVIGATE_DOWN" ->
                IF state.phase = "menu"
                THEN new([state EXCEPT !.menuSelectedIndex = navigateDown(@)])
                ELSE same
          [] action.type = "SELECT" ->
                IF state.phase = "menu" THEN handleMenuSelection(state) ELSE same
          [] action.type = "BACK" ->
                IF state.phase \in {"menu", "settings", "eventDetails"}
                THEN new([state EXCEPT !.phase = "idle"])
                ELSE same
          [] action.type = "OPEN_MENU" ->
                new([state EXCEPT !.phase = "menu", !.menuSelectedIndex = 0])
          [] action.type = "CLOSE_MENU" -> new([state EXCEPT !.phase = "idle"])
          [] action.type = "OPEN_SETTINGS" ->
                new([state EXCEPT !.phase = "settings"])
          [] action.type = "CLOSE_SETTINGS" ->
                new([state EXCEPT !.phase = "idle"])
          [] action.type = "UPDATE_SETTING" -> new(state)
          [] action.type = "TOGGLE_DEBUG" ->
                new([state EXCEPT !.showDebugInfo = ~@])
          [] action.type = "CLEAR_ERROR" ->
                new([state EXCEPT !.error = Null,
                                  !.phase = IF @ = "error" THEN "idle" ELSE @])
          [] action.type = "REFRESH" -> new([state EXCEPT !.phase = "syncing"])
          [] OTHER -> same

\* handleScrollEvent, handleTapEvent, handleDoubleTapEvent: the action of an
\* SDK event in a phase, Null when the event is ignored
mapEvenHubEvent(event, state) ==
    CASE event = "scrollUp" ->
            IF state.phase \in {"menu", "settings"}
            THEN [type |-> "NAVIGATE_UP"] ELSE Null
      [] event = "scrollDown" ->
            IF state.phase \in {"menu", "settings"} THEN [type |-> "NAVIGATE_DOWN"]
            ELSE IF state.phase \in {"idle", "syncing"} THEN [type |-> "OPEN_MENU"]
            ELSE Null
      [] event = "tap" ->
            IF state.phase \in {"menu", "settings"} THEN [type |-> "SELECT"]
            ELSE IF state.phase = "idle" THEN [type |-> "REFRESH"]
            ELSE IF state.phase = "error" THEN [type |-> "CLEAR_ERROR"]
            ELSE Null
      [] event = "doubleTap" ->
            IF state.phase \in {"menu", "settings", "eventDetails"}
            THEN [type |-> "BACK"]
            ELSE IF state.phase = "idle" THEN [type |-> "OPEN_MENU"]
            ELSE IF state.phase = "error" THEN [type |-> "CLEAR_ERROR"]
            ELSE Null

\* shutdownApp up to its await: the timer is cleared, the store listener
\* and the SDK events are unsubscribed
shutdownApp(rt) ==
    [rt EXCEPT !.timerOn = FALSE, !.subscribed = FALSE, !.eventsOn = FALSE,
               !.shutdowns = @ + 1]

\* handleMenuActions: the menu was left with 'Exit' highlighted
leavesMenuOnExit(state, prevState) ==
    /\ prevState.phase = "menu"
    /\ state.phase # "menu"
    /\ prevState.menuSelectedIndex = 4

\* a listener that never starts a sync
entersSyncing_Never(state, prevState) == FALSE

\* handleMenuActions: the phase has become syncing
entersSyncing(state, prevState) ==
    state.phase = "syncing" /\ prevState.phase # "syncing"

\* dispatch, handleStateChange and syncCalendar (up to its await) call one
\* another; each gives the store's state and appRt after it has run
RECURSIVE dispatch(_, _, _)
RECURSIVE handleStateChange(_, _, _)
RECURSIVE syncCalendar(_, _)

dispatch(state, rt, action) ==
    LET r == reducer(state, action)
    IN  IF r.changed /\ rt.subscribed
        THEN handleStateChange(r.state, state, rt)
        ELSE [state |-> r.state, rt |-> rt]

handleStateChange(state, prevState, rt) ==
    LET rt1 == IF leavesMenuOnExit(state, prevState) THEN shutdownApp(rt) ELSE rt
    IN  IF entersSyncing(state, prevState)
        THEN syncCalendar(state, rt1)
        ELSE [state |-> state, rt |-> rt1]

syncCalendar(state, rt) ==
    LET d == dispatch(state, rt, [type |-> "SYNC_START"])
    IN  [state |-> d.state,
         rt |-> [d.rt EXCEPT !.fetches = @ + 1, !.started = @ + 1]]

\* the lists of upcoming events a fetch returns
FetchedEvents == {<<>>, <<"e1">>, <<"e2", "e1">>}

SdkEvents == {"scrollUp", "scrollDown", "tap", "doubleTap"}

\* initApp has created the store and the services, subscribed the SDK
\* events and the store listener, and is about to run the initial sync
InitStore ==
    /\ storeState = createInitialState
    /\ appRt = [subscribed |-> TRUE, timerOn |-> FALSE, eventsOn |-> TRUE,
                init |-> "start", fetches |-> 0, initFetch |-> FALSE,
                started |-> 0, shutdowns |-> 0]
    /\ lastAct = [source |-> "none", type |-> "none", started |-> 0,
                  shutdown |-> FALSE]
    /\ WrapIdle
    /\ CalendarIdle
    /\ ImageIdle
    /\ CodecIdle
    /\ DiffIdle
    /\ ManagerIdle

StoreFrame ==
    UNCHANGED <<wrapVars, calendarVars, imageVars, codecVars, diffVars,
                bleVars, appVars>>

\* the step from (storeState, appRt) to d, made by source dispatching type
StoreStep(d, source, type) ==
    /\ storeState' = d.state
    /\ appRt' = d.rt
    /\ lastAct' = [source |-> source, type |-> type,
                   started |-> d.rt.started - appRt.started,
                   shutdown |-> d.rt.shutdowns > appRt.shutdowns]
    /\ StoreFrame

\* the fetches a step may start are within the bound
MayStartFetches == appRt.started + 2 <= MaxFetches

\* initApp: `await syncCalendar()`, up to the await of the fetch
InitialSync ==
    /\ appRt.init = "start"
    /\ LET d == syncCalendar(storeState, appRt)
       IN  StoreStep([d EXCEPT !.rt.init = "awaiting", !.rt.initFetch = TRUE,
                               !.rt.fetches = @ - 1],
                     "initial", "SYNC_START")

\* a tick of the sync timer: syncCalendar up to the await of the fetch
TimerSync ==
    /\ appRt.timerOn
    /\ MayStartFetches
    /\ StoreStep(syncCalendar(storeState, appRt), "timer", "SYNC_START")

\* an SDK event that the mapper turns into an action
UserEvent ==
    /\ appRt.eventsOn
    /\ MayStartFetches
    /\ \E event \in SdkEvents :
          LET action == mapEvenHubEvent(event, storeState)
          IN  /\ action # Null
              /\ StoreStep(dispatch(storeState, appRt, action), "user", action.type)

\* the action syncCalendar dispatches when its fetch has ended
FetchResult(events, ok) ==
    IF ok THEN [type |-> "SYNC_SUCCESS", events |-> events]
    ELSE [type |-> "SYNC_ERROR", error |-> [message |-> "Sync failed"]]

\* a fetch other than the one initApp awaits returns or fails
FetchEnds ==
    /\ appRt.fetches > 0
    /\ \E events \in FetchedEvents, ok \in BOOLEAN :
          LET action == FetchResult(events, ok)
          IN  StoreStep(dispatch(storeState,
                                 [appRt EXCEPT !.fetches = @ - 1], action),
                        "fetch", action.type)

\* the fetch initApp awaits returns or fails: syncCalendar dispatches the
\* result, then initApp starts the sync timer and dispatches INIT_SUCCESS
InitialFetchEnds ==
    /\ appRt.initFetch
    /\ \E events \in FetchedEvents, ok \in BOOLEAN :
          LET d == dispatch(storeState, [appRt EXCEPT !.initFetch = FALSE],
                            FetchResult(events, ok))
          IN  StoreStep(dispatch(d.state,
                                 [d.rt EXCEPT !.timerOn = TRUE, !.init = "done"],
                                 [type |-> "INIT_SUCCESS"]),
                        "fetch", "INIT_SUCCESS")

NextStore ==
    \/ InitialSync
    \/ TimerSync
    \/ UserEvent
    \/ FetchEnds
    \/ InitialFetchEnds

SpecStore == InitStore /\ [][NextStore]_vars

\* a fetch in flight eventually returns or fails
SpecStoreFair ==
    SpecStore /\ WF_vars(FetchEnds) /\ WF_vars(InitialFetchEnds)

\* the actions a caller of the store may dispatch
StoreActions ==
    {[type |-> t] : t \in {"INIT_SUCCESS", "SYNC_START", "NAVIGATE_UP",
                           "NAVIGATE_DOWN", "SELECT", "BACK", "OPEN_MENU",
                           "CLOSE_MENU", "OPEN_SETTINGS", "CLOSE_SETTINGS",
                           "UPDATE_SETTING", "TOGGLE_DEBUG", "CLEAR_ERROR",
                           "REFRESH"}}
        \cup {[type |-> t, error |-> [message |-> "failed"]] :
                 t \in {"INIT_ERROR", "SYNC_ERROR"}}
        \cup {[type |-> "SYNC_SUCCESS", events |-> e] : e \in FetchedEvents}
        \cup {[type |-> "UPDATE_NEXT_EVENT", event |-> getFirstEvent(e)] :
                 e \in FetchedEvents}

\* a store just created by createStore(), with no listener
InitReducer ==
    /\ storeState = createInitialState
    /\ appRt = Null
    /\ lastAct = [type |-> "none", index |-> 0, phase |-> "loading"]
    /\ WrapIdle
    /\ CalendarIdle
    /\ ImageIdle
    /\ CodecIdle
    /\ DiffIdle
    /\ ManagerIdle

\* store.dispatch(action) for any action; lastAct keeps the action's type
\* and the cursor and phase it found
Dispatch ==
    \E action \in StoreActions :
        /\ storeState' = reducer(storeState, action).state
        /\ lastAct' = [type |-> action.type,
                       index |-> storeState.menuSelectedIndex,
                       phase |-> storeState.phase]
        /\ UNCHANGED appRt
        /\ StoreFrame

NextReducer == Dispatch

SpecReducer == InitReducer /\ [][NextReducer]_vars

\* C31: shutdownApp runs in a step exactly when that step is the user's
\* SELECT on the menu with 'Exit' (index 4) highlighted; leaving the menu
\* otherwise (BACK, a sync that changes the phase) with 'Exit' highlighted
\* never runs it.
C31_ShutdownIffExitSelected ==
    [][lastAct'.shutdown
          <=> (/\ lastAct'.source = "user"
               /\ lastAct'.type = "SELECT"
               /\ storeState.phase = "menu"
               /\ storeState.menuSelectedIndex = 4)]_vars

\* C32: a tap or double-tap in the error phase (the mapper's CLEAR_ERROR)
\* clears the error and starts a new calendar sync: the phase becomes
\* syncing and a fetch is started.
C32_TapInErrorRetries ==
    [][(/\ storeState.phase = "error"
        /\ lastAct'.source = "user"
        /\ lastAct'.type = "CLEAR_ERROR")
          => (/\ storeState'.error = Null
              /\ storeState'.phase = "syncing"
              /\ lastAct'.started >= 1)]_vars

\* C36: each sync trigger (the initial sync, a tick of the timer, a refresh
\* by the user: REFRESH or SELECT on 'Refresh Now') starts exactly one
\* calendar fetch.
C36_OneFetchPerTrigger ==
    [][(\/ lastAct'.source \in {"initial", "timer"}
        \/ /\ lastAct'.source = "user"
           /\ \/ lastAct'.type = "REFRESH"
              \/ /\ lastAct'.type = "SELECT"
                 /\ storeState.phase = "menu"
                 /\ storeState.menuSelectedIndex = 0)
          => lastAct'.started = 1]_vars

\* C37: a sync started by the timer while the phase is menu, settings or
\* eventDetails leaves the phase and menuSelectedIndex as they were.
C37_TimerSyncKeepsPhase ==
    [][(/\ lastAct'.source = "timer"
        /\ storeState.phase \in {"menu", "settings", "eventDetails"})
          => (/\ storeState'.phase = storeState.phase
              /\ storeState'.menuSelectedIndex = storeState.menuSelectedIndex)]_vars

FetchInFlight == appRt.fetches > 0 \/ appRt.initFetch

\* C38: a step in which the phase becomes syncing starts a fetch; the phase
\* is never syncing with no fetch in flight; and, fetches returning or
\* failing, the phase always leaves syncing again.
C38_SyncingHasFetch ==
    /\ [](storeState.phase = "syncing" => FetchInFlight)
    /\ [][(storeState'.phase = "syncing" /\ storeState.phase # "syncing")
             => lastAct'.started >= 1]_vars
    /\ (storeState.phase = "syncing") ~> (storeState.phase # "syncing")

\* C38: the user's REFRESH has made the phase syncing and started the one
\* fetch in flight
C38_Witness ==
    /\ lastAct.source = "user"
    /\ lastAct.type = "REFRESH"
    /\ lastAct.started = 1
    /\ storeState.phase = "syncing"
    /\ appRt.fetches = 1

\* C39: menuSelectedIndex is always within 0..4; OPEN_MENU sets it to 0;
\* and apart from that only NAVIGATE_UP and NAVIGATE_DOWN dispatched while
\* the phase is menu change it.
C39_MenuIndexInRange ==
    /\ [](storeState.menuSelectedIndex \in 0..4)
    /\ [][/\ lastAct'.type = "OPEN_MENU" => storeState'.menuSelectedIndex = 0
          /\ storeState'.menuSelectedIndex # storeState.menuSelectedIndex
                => \/ lastAct'.type = "OPEN_MENU"
                   \/ /\ lastAct'.type \in {"NAVIGATE_UP", "NAVIGATE_DOWN"}
                      /\ storeState.phase = "menu"]_vars

\* C39: NAVIGATE_DOWN dispatched in the menu with the cursor on the last
\* option has left it there
C39_Witness ==
    /\ lastAct.type = "NAVIGATE_DOWN"
    /\ lastAct.phase = "menu"
    /\ lastAct.index = 4
    /\ storeState.menuSelectedIndex = 4

====
